---- MODULE Spec2Model ----
(***************************************************************************)
(* Transactional order processing over PostgreSQL (node-postgres).         *)
(*                                                                         *)
(* The store is modelled at statement granularity under READ COMMITTED:    *)
(* every statement of a unit of work sees the committed tables overlaid    *)
(* with the unit's own uncommitted writes; a write to a row (or an insert  *)
(* of a unique key) that another open transaction has written waits until  *)
(* that transaction ends (the action is disabled meanwhile).               *)
(* SERIAL sequences are not transactional: an id drawn by a transaction    *)
(* that rolls back is never reused.                                        *)
(*                                                                         *)
(* An argument of a service call is drawn at the statement where the code  *)
(* first reads it; the code cannot observe it earlier, so the behaviours   *)
(* are those of a call whose arguments are fixed on entry.                 *)
(***************************************************************************)
EXTENDS Integers, Sequences, FiniteSets, TLC

(***************************************************************************)
(* Bounds of the exploration.                                              *)
(***************************************************************************)
MaxCalls == 3
MaxFaults == 1
MaxQty == 2
InitStock == 2

(***************************************************************************)
(* Program constants.                                                      *)
(***************************************************************************)
PoolMax == 20
DefaultStockMinimo == 5
\* recentOrders.slice(0, 10)
RecentLimit == 10

\* slots for concurrently running service calls
Units == {1, 2}
Names == {"Ana", "Bea"}
Emails == {"a@x.cl"}
\* the first seeded product (precio in cents)
Seed == <<[producto |-> "Laptop Gaming", precio |-> 129999]>>
\* the first two seeded products
inventoryItems ==
    Seed \o <<[producto |-> "Mouse Inalambrico", precio |-> 2999]>>
Quantities == 0..MaxQty
ClienteIds == 1..MaxCalls
PedidoIds == 1..MaxCalls

VARIABLES
    clientes,    \* committed rows of table clientes
    inventario,  \* committed rows of table inventario, by id
    pedidos,     \* committed rows of table pedidos
    seq,         \* SERIAL sequences of clientes and pedidos
    pc,          \* position of each unit of work
    op,          \* the service call each unit is running, with its arguments
    loc,         \* local variables of the running service function
    tx,          \* uncommitted writes of the unit's open transaction
    err,         \* error caught by executeTransaction's catch block
    rbErr,       \* error of the ROLLBACK statement (only logged)
    conn,        \* connection the unit holds (0: none)
    pool,        \* connections checked out of the pool
    log,         \* statements issued on the connection by the current call
    ended,       \* the call that ended in the step just taken, as its caller
                 \* and the pool saw it (kind "none": no call ended)
    base,        \* committed tables as left by everyone but the unit's call
    alone,       \* no other unit of work overlapped the unit's call so far
    calls,       \* service calls started so far
    faults,      \* statement/connection failures injected so far
    batch        \* the running batchProcessOrders or
                 \* executeSequentialTransactions call: its loop and results

\* the ids and names of the products of table inventario
ProductIds == DOMAIN inventario
ProductNames ==
    {inventario[p].producto : p \in ProductIds} \cup {"Inexistente"}

vars == <<clientes, inventario, pedidos, seq, pc, op, loc, tx, err, rbErr,
          conn, pool, log, ended, base, alone, calls, faults, batch>>

----------------------------------------------------------------------------
(* Values *)

NoRow == [id |-> 0]
NoErr == [msg |-> <<>>, code |-> "none"]
\* no request body: the service was called directly
NoBody == [cliente |-> "", producto |-> FALSE, cantidad |-> FALSE,
           productos |-> <<>>]
NoOp == [kind |-> "none", nombre |-> "", email |-> "", cliente_id |-> 0,
         producto |-> "", cantidad |-> 0, simulateError |-> FALSE,
         orderId |-> 0, body |-> NoBody, mode |-> ""]
NoLoc == [existingClient |-> NoRow, createdClient |-> NoRow,
          foundProduct |-> NoRow,
          createdOrder |-> NoRow, updatedProduct |-> NoRow,
          order |-> NoRow, cancelResult |-> NoRow, newStock |-> 0,
          statistics |-> NoRow, recentOrders |-> <<>>,
          lowStockProducts |-> {}, work |-> NoRow, result |-> NoRow]
NoTx == [cli |-> {}, ped |-> {}, del |-> {}, upd |-> {},
         stk |-> [p \in ProductIds |-> 0]]
NoDb == [clientes |-> {}, inventario |-> <<>>, pedidos |-> {}]
NoCall == [kind |-> "none", unit |-> 0, op |-> NoOp, val |-> NoRow,
           err |-> NoErr, caught |-> NoErr, rbErr |-> NoErr, log |-> <<>>,
           conn |-> 0, released |-> 0, base |-> NoDb, alone |-> TRUE,
           loc |-> NoLoc]

\* no batch is running
NoBatch == [pc |-> "idle", length |-> 0, stopOnError |-> FALSE, i |-> 0,
            broke |-> FALSE, results |-> <<>>, errors |-> <<>>,
            attempted |-> <<>>, return |-> NoRow]

Db == [clientes |-> clientes, inventario |-> inventario, pedidos |-> pedidos]

\* new Error(message)
Error(m) == [msg |-> <<m>>, code |-> "none"]

\* a repository that rethrows what it caught
WrapError_Same(prefix, e) == e

\* new Error(`${prefix}: ${error.message}`): the code of the cause is dropped
WrapError(prefix, e) == [msg |-> <<prefix>> \o e.msg, code |-> "none"]
\* an error raised by the driver for a failed statement
DbError(stmt, code) == [msg |-> <<"pg", stmt>>, code |-> code]

\* whether one more failure may be injected
FaultChoices == IF faults < MaxFaults THEN {FALSE, TRUE} ELSE {FALSE}

\* BEGIN, COMMIT and ROLLBACK: the statements of executeTransaction
Control == {"BEGIN", "COMMIT", "ROLLBACK"}

\* a repository call without the client: the query goes to the pool
DbClient_Pool(client) == 0

\* the dbClient argument of every repository call of the services: the
\* client that executeTransaction passed to the unit of work
DbClient(client) == client

Logged(u, stmt, ok) ==
    Append(log[u], [stmt |-> stmt, ok |-> ok,
                    conn |-> IF stmt \in Control THEN conn[u]
                             ELSE DbClient(conn[u])])

----------------------------------------------------------------------------
(* What a statement of unit u sees: committed rows and u's own writes *)

VisClientes(u) == clientes \cup tx[u].cli
VisPedidos(u) == {r \in pedidos : r.id \notin tx[u].del} \cup tx[u].ped
VisInventario(u) ==
    [p \in ProductIds |->
        IF p \in tx[u].upd
        THEN [inventario[p] EXCEPT !.stock = tx[u].stk[p]]
        ELSE inventario[p]]

\* row locks held by other open transactions
ProductLocked(u, p) == \E v \in Units \ {u} : p \in tx[v].upd
PedidoLocked(u, o) == \E v \in Units \ {u} : o \in tx[v].del
EmailInFlight(u, e) == \E v \in Units \ {u} : \E r \in tx[v].cli : r.email = e

Pick(S) == IF S = {} THEN NoRow ELSE CHOOSE r \in S : TRUE

----------------------------------------------------------------------------
Init ==
    /\ clientes = {}
    /\ inventario = [p \in 1..Len(Seed) |->
                        [id |-> p, producto |-> Seed[p].producto,
                         precio |-> Seed[p].precio, stock |-> InitStock,
                         stock_minimo |-> DefaultStockMinimo]]
    /\ pedidos = {}
    /\ seq = [cli |-> 0, ped |-> 0]
    /\ pc = [u \in Units |-> "idle"]
    /\ op = [u \in Units |-> NoOp]
    /\ loc = [u \in Units |-> NoLoc]
    /\ tx = [u \in Units |-> NoTx]
    /\ err = [u \in Units |-> NoErr]
    /\ rbErr = [u \in Units |-> NoErr]
    /\ conn = [u \in Units |-> 0]
    /\ pool = {}
    /\ log = [u \in Units |-> <<>>]
    /\ ended = NoCall
    /\ base = [u \in Units |-> NoDb]
    /\ alone = [u \in Units |-> TRUE]
    /\ calls = 0
    /\ faults = 0
    /\ batch = NoBatch

----------------------------------------------------------------------------
(* One statement of the unit of work of u, issued on u's connection: the   *)
(* function continues at label l, or throws e into executeTransaction's    *)
(* catch block (label "rollback").                                         *)

Statement(u, l, e, newOp, newLoc, newTx, newSeq, stmt, ok, fault) ==
    /\ pc' = [pc EXCEPT ![u] = l]
    /\ err' = [err EXCEPT ![u] = e]
    /\ op' = [op EXCEPT ![u] = newOp]
    /\ loc' = [loc EXCEPT ![u] = newLoc]
    /\ tx' = [tx EXCEPT ![u] = newTx]
    /\ seq' = newSeq
    /\ log' = [log EXCEPT ![u] = Logged(u, stmt, ok)]
    /\ faults' = IF fault THEN faults + 1 ELSE faults
    /\ ended' = NoCall
    /\ UNCHANGED <<clientes, inventario, pedidos, rbErr, conn, pool, base,
                   alone, calls, batch>>

\* the statement succeeded and the function goes on
Continue(u, l, newOp, newLoc, newTx, newSeq, stmt) ==
    Statement(u, l, NoErr, newOp, newLoc, newTx, newSeq, stmt, TRUE, FALSE)

\* the function throws e after a statement that itself succeeded
Throw(u, e, newOp, stmt) ==
    Statement(u, "rollback", e, newOp, loc[u], tx[u], seq, stmt, TRUE, FALSE)

\* the statement failed in the store with a constraint violation
Violation(u, e, newSeq, stmt) ==
    Statement(u, "rollback", e, op[u], loc[u], tx[u], newSeq, stmt, FALSE,
              FALSE)

\* the statement failed (connection lost, timeout): the repository wraps it
Failed(u, prefix, stmt) ==
    Statement(u, "rollback", WrapError(prefix, DbError(stmt, "08006")),
              op[u], loc[u], tx[u], seq, stmt, FALSE, TRUE)

----------------------------------------------------------------------------
(* executeTransaction *)

\* a pool that hands out any of its connections, checked out or not
FreeConns_Any == 1..PoolMax

\* pool.connect() with max: 20: the connections nobody has checked out
FreeConns == (1..PoolMax) \ pool

\* the first statement of the unit of work, by service
FirstLabel(kind) ==
    CASE kind = "processCompleteOrder" -> "getClientByEmail"
      [] kind = "processOrderWithExistingClient" -> "getClientById"
      [] kind = "createOrder" -> "orderInfo"
      [] kind = "getOrderSummary" -> "getOrderStatistics"
      [] OTHER -> "getOrderById"

\* a wrapper that throws a new error built from the one it caught
RaisedError_Wrapped(error) == WrapError("Transaccion fallo", error)

\* throw error: executeTransaction throws the error it caught
RaisedError(error) == error

\* a wrapper whose inner catch block throws the error of ROLLBACK again
RollbackCatch_Rethrows(rollbackError) == rollbackError

\* catch (rollbackError) { console.error(...) }: what the inner catch block
\* throws out of the outer one: nothing
RollbackCatch(rollbackError) == NoErr

\* what the catch block of executeTransaction throws: an error leaving the
\* inner catch block comes before throw error
Thrown(error, rollbackError) ==
    IF RollbackCatch(rollbackError) # NoErr
    THEN RollbackCatch(rollbackError)
    ELSE RaisedError(error)

\* a wrapper that starts the transaction again after rolling it back
AfterCatch_Retry == "begin"

\* throw error: after the catch block executeTransaction is left through
\* finally, there is no loop around the try
AfterCatch == "finish"

\* a catch block that issues ROLLBACK whether or not it has a client
RollsBack_Always(client) == TRUE

\* catch (error) { if (client) { ... await client.query('ROLLBACK') ... } }
RollsBack(client) == client # 0

\* a wrapper without the finally block
Releases_None(client) == 0

\* finally { if (client) client.release() }: the number of release() calls
Releases(client) == IF client # 0 THEN 1 ELSE 0

\* the statement that ends the transaction when the unit returned, and the
\* one that ends it when something was thrown
SuccessStatement_Rollback == "ROLLBACK"
SuccessStatement == "COMMIT"
FailureStatement_Commit == "COMMIT"
FailureStatement == "ROLLBACK"

\* the tables db with the writes w applied
Apply(db, w) ==
    [clientes |-> db.clientes \cup w.cli,
     pedidos |-> {r \in db.pedidos : r.id \notin w.del} \cup w.ped,
     inventario |-> [p \in ProductIds |->
                        IF p \in w.upd
                        THEN [db.inventario[p] EXCEPT !.stock = w.stk[p]]
                        ELSE db.inventario[p]]]

\* the tables after COMMIT of the writes w
Committed(w) == Apply(Db, w)

\* the tables after the transaction with writes w was ended by stmt
Ended(stmt, w) == IF stmt = "COMMIT" THEN Committed(w) ELSE Db

\* base when the transaction of u is ended by stmt: the writes of u reach
\* the tables every other running call works on
Rebased(u, stmt) ==
    [v \in Units |->
        IF v = u \/ pc[v] = "idle" \/ stmt # "COMMIT" THEN base[v]
        ELSE Apply(base[v], tx[u])]

\* a service is called: executeOrderTransaction -> executeTransaction ->
\* client = await getClient()
CallWith(u, o) ==
    /\ pc[u] = "idle"
    \* the slots are interchangeable: a call takes the first idle one
    /\ \A v \in Units : v < u => pc[v] # "idle"
    /\ calls < MaxCalls
    /\ calls' = calls + 1
    /\ \E f \in FaultChoices :
        IF f \/ FreeConns = {}
        THEN \* catch with client undefined: no ROLLBACK, no release
             LET e == DbError("connect", "ETIMEDOUT") IN
             /\ ended' = [NoCall EXCEPT
                            !.kind = "raised", !.unit = u,
                            !.op = o,
                            !.err = RaisedError(e), !.caught = e,
                            !.log = IF RollsBack(0)
                                    THEN <<[stmt |-> FailureStatement,
                                            ok |-> FALSE, conn |-> 0]>>
                                    ELSE <<>>,
                            !.released = Releases(0), !.base = Db,
                            !.alone = \A w \in Units \ {u} : pc[w] = "idle"]
             /\ faults' = IF f THEN faults + 1 ELSE faults
             /\ UNCHANGED <<pc, op, conn, pool, base, alone>>
        ELSE LET c == CHOOSE c \in FreeConns : \A d \in FreeConns : c <= d IN
             /\ pc' = [pc EXCEPT ![u] = "begin"]
             /\ op' = [op EXCEPT ![u] = o]
             /\ conn' = [conn EXCEPT ![u] = c]
             /\ pool' = pool \cup {c}
             /\ base' = [base EXCEPT ![u] = Db]
             /\ alone' = [v \in Units |->
                            IF v = u
                            THEN \A w \in Units \ {u} : pc[w] = "idle"
                            ELSE pc[v] = "idle"]
             /\ ended' = NoCall
             /\ UNCHANGED faults
    /\ UNCHANGED <<clientes, inventario, pedidos, seq, loc, tx, err, rbErr,
                   log>>

\* a service called directly, with its arguments
Call(u, kind) ==
    CallWith(u, [NoOp EXCEPT !.kind = kind]) /\ UNCHANGED batch

\* await client.query('BEGIN')
Begin(u) ==
    /\ pc[u] = "begin"
    /\ \E f \in FaultChoices :
        IF f
        THEN Statement(u, "rollback", DbError("BEGIN", "08006"), op[u],
                       loc[u], tx[u], seq, "BEGIN", FALSE, TRUE)
        ELSE Continue(u, FirstLabel(op[u].kind), op[u], loc[u], NoTx, seq,
                      "BEGIN")

\* a transaction that is left open: its writes and row locks stay
AfterEnd_Open(w) == w

\* COMMIT or ROLLBACK was issued: the transaction is over, it holds no
\* uncommitted write and no row lock any more
AfterEnd(w) == NoTx

\* a wrapper that returns the result although COMMIT threw
CommitFailure_Swallowed(error) == NoErr

\* COMMIT is awaited inside the try, before return result: its error is
\* the error the catch block gets
CommitFailure(error) == error

\* await client.query('COMMIT')
Commit(u) ==
    /\ pc[u] = "commit"
    /\ \E f \in FaultChoices :
        LET after == IF f THEN Db ELSE Ended(SuccessStatement, tx[u]) IN
        /\ clientes' = after.clientes
        /\ inventario' = after.inventario
        /\ pedidos' = after.pedidos
        /\ tx' = [tx EXCEPT ![u] = AfterEnd(tx[u])]
        /\ pc' = [pc EXCEPT ![u] = IF f THEN "rollback" ELSE "finish"]
        /\ err' = [err EXCEPT ![u] =
                      IF f THEN CommitFailure(DbError("COMMIT", "08006"))
                      ELSE NoErr]
        /\ log' = [log EXCEPT ![u] = Logged(u, SuccessStatement, ~f)]
        /\ faults' = IF f THEN faults + 1 ELSE faults
        /\ base' = Rebased(u, IF f THEN "none" ELSE SuccessStatement)
    /\ ended' = NoCall
    /\ UNCHANGED <<seq, op, loc, rbErr, conn, pool, alone, calls, batch>>

\* catch (error) { if (client) { try { await client.query('ROLLBACK') }
\* catch (rollbackError) { console.error(...) } } ... }
Rollback(u) ==
    /\ pc[u] = "rollback"
    /\ \E f \in FaultChoices :
        LET after == IF f THEN Db ELSE Ended(FailureStatement, tx[u]) IN
        /\ clientes' = after.clientes
        /\ inventario' = after.inventario
        /\ pedidos' = after.pedidos
        /\ tx' = [tx EXCEPT ![u] = AfterEnd(tx[u])]
        /\ pc' = [pc EXCEPT ![u] = AfterCatch]
        /\ rbErr' = [rbErr EXCEPT ![u] =
                        IF f THEN DbError("ROLLBACK", "08006") ELSE NoErr]
        /\ log' = [log EXCEPT ![u] = Logged(u, FailureStatement, ~f)]
        /\ faults' = IF f THEN faults + 1 ELSE faults
        /\ base' = Rebased(u, IF f THEN "none" ELSE FailureStatement)
    /\ ended' = NoCall
    /\ UNCHANGED <<seq, op, loc, err, conn, pool, alone, calls, batch>>

\* return result / throw error, through finally { if (client)
\* client.release() }: the promise of the service call settles
Finish(u) ==
    /\ pc[u] = "finish"
    /\ LET n == Releases(conn[u]) IN
        /\ ended' = [kind |-> IF err[u] = NoErr THEN "returned" ELSE "raised",
                     unit |-> u, op |-> op[u],
                     val |-> IF err[u] = NoErr THEN loc[u].result ELSE NoRow,
                     err |-> IF err[u] = NoErr THEN NoErr
                             ELSE Thrown(err[u], rbErr[u]),
                     caught |-> err[u], rbErr |-> rbErr[u], log |-> log[u],
                     conn |-> conn[u], released |-> n, base |-> base[u],
                     alone |-> alone[u], loc |-> loc[u]]
        /\ pool' = IF n > 0 THEN pool \ {conn[u]} ELSE pool
    /\ pc' = [pc EXCEPT ![u] = "idle"]
    /\ op' = [op EXCEPT ![u] = NoOp]
    /\ loc' = [loc EXCEPT ![u] = NoLoc]
    /\ err' = [err EXCEPT ![u] = NoErr]
    /\ rbErr' = [rbErr EXCEPT ![u] = NoErr]
    /\ conn' = [conn EXCEPT ![u] = 0]
    /\ log' = [log EXCEPT ![u] = <<>>]
    /\ base' = [base EXCEPT ![u] = NoDb]
    /\ alone' = [alone EXCEPT ![u] = TRUE]
    /\ UNCHANGED <<clientes, inventario, pedidos, seq, tx, calls, faults,
                   batch>>

----------------------------------------------------------------------------
(* orderService: the entry points *)

processCompleteOrder(u) == Call(u, "processCompleteOrder")

processOrderWithExistingClient(u) ==
    Call(u, "processOrderWithExistingClient")

cancelOrderAndRestoreInventory(u) ==
    Call(u, "cancelOrderAndRestoreInventory")

----------------------------------------------------------------------------
(* orderService: batchProcessOrders *)

\* a batch that goes on after a failure whatever the caller asked
Breaks_Never(stopOnError) == FALSE

\* if (stopOnError) break
Breaks(stopOnError) == stopOnError

\* a batch that records every item as processed
ItemSucceeded_Always(c) == TRUE

\* try { result = await processCompleteOrder(...) } catch (error) { ... }
ItemSucceeded(c) == c.kind = "returned"

\* batchProcessOrders(ordersData, stopOnError): const results = [],
\* errors = []; the items of ordersData are drawn when their call reads them
batchProcessOrders ==
    /\ batch.pc = "idle"
    /\ calls = 0
    /\ \E n \in 0..MaxCalls, stopOnError \in BOOLEAN :
        batch' = [NoBatch EXCEPT !.pc = "loop", !.length = n,
                                 !.stopOnError = stopOnError]
    /\ ended' = NoCall
    /\ UNCHANGED <<clientes, inventario, pedidos, seq, pc, op, loc, tx, err,
                   rbErr, conn, pool, log, base, alone, calls, faults>>

\* for (let i = 0; i < ordersData.length; i++)
\*     await processCompleteOrder(ordersData[i])
batchItem(u) ==
    /\ batch.pc = "loop"
    /\ ended.kind = "none"
    /\ \A v \in Units : pc[v] = "idle"
    /\ ~batch.broke
    /\ batch.i < batch.length
    /\ batch' = [batch EXCEPT !.attempted = Append(@, batch.i)]
    /\ CallWith(u, [NoOp EXCEPT !.kind = "processCompleteOrder"])

\* the call of item i settled: results.push({index, success: true, data})
\* or errors.push({index, success: false, error}) and the stop policy
batchCollect ==
    /\ batch.pc = "loop"
    /\ ended.kind # "none"
    /\ batch' =
        IF ItemSucceeded(ended)
        THEN [batch EXCEPT
                !.results = Append(@, [index |-> batch.i, success |-> TRUE,
                                       data |-> ended.val]),
                !.i = @ + 1]
        ELSE [batch EXCEPT
                !.errors = Append(@, [index |-> batch.i, success |-> FALSE,
                                      error |-> ended.err.msg]),
                !.broke = Breaks(batch.stopOnError),
                !.i = IF Breaks(batch.stopOnError) THEN @ ELSE @ + 1]
    /\ ended' = NoCall
    /\ UNCHANGED <<clientes, inventario, pedidos, seq, pc, op, loc, tx, err,
                   rbErr, conn, pool, log, base, alone, calls, faults>>

\* return {total, processed, successful, failed, results, errors}
batchReturn ==
    /\ batch.pc = "loop"
    /\ ended.kind = "none"
    /\ \A u \in Units : pc[u] = "idle"
    /\ batch.broke \/ batch.i = batch.length
    /\ batch' = [batch EXCEPT
                    !.pc = "done",
                    !.return = [total |-> batch.length,
                                processed |-> Len(batch.results),
                                successful |-> Len(batch.results),
                                failed |-> Len(batch.errors),
                                results |-> batch.results,
                                errors |-> batch.errors]]
    /\ ended' = NoCall
    /\ UNCHANGED <<clientes, inventario, pedidos, seq, pc, op, loc, tx, err,
                   rbErr, conn, pool, log, base, alone, calls, faults>>

----------------------------------------------------------------------------
(* executeSequentialTransactions *)

\* the transaction functions handed over: the units of work of the two
\* order services
TransactionFns == {"processCompleteOrder", "processOrderWithExistingClient"}

\* a loop that goes on to the next function after a failure
Rethrows_Never(c) == FALSE

\* catch (error) { throw new Error(...) }: a failed executeTransaction ends
\* the loop
Rethrows(c) == c.kind = "raised"

\* throw new Error(`Transaccion ${i + 1} fallo: ${error.message}`)
SequenceError(i, error) ==
    [msg |-> <<"Transaccion fallo", i + 1>> \o error.msg, code |-> "none"]

\* executeSequentialTransactions(transactionFns, options): const results = []
executeSequentialTransactions ==
    /\ batch.pc = "idle"
    /\ calls = 0
    /\ \E n \in 0..MaxCalls :
        batch' = [NoBatch EXCEPT !.pc = "sequence", !.length = n]
    /\ ended' = NoCall
    /\ UNCHANGED <<clientes, inventario, pedidos, seq, pc, op, loc, tx, err,
                   rbErr, conn, pool, log, base, alone, calls, faults>>

\* for (let i = 0; i < transactionFns.length; i++)
\*     await executeTransaction(transactionFns[i], options)
sequenceItem(u) ==
    /\ batch.pc = "sequence"
    /\ ended.kind = "none"
    /\ \A v \in Units : pc[v] = "idle"
    /\ batch.i < batch.length
    /\ batch' = [batch EXCEPT !.attempted = Append(@, batch.i)]
    /\ \E fn \in TransactionFns : CallWith(u, [NoOp EXCEPT !.kind = fn])

\* the transaction of function i settled: results.push(result), or the
\* catch block throws out of the loop
sequenceCollect ==
    /\ batch.pc = "sequence"
    /\ ended.kind # "none"
    /\ batch' =
        IF Rethrows(ended)
        THEN [batch EXCEPT !.pc = "raised",
                           !.errors = <<SequenceError(batch.i, ended.err)>>]
        ELSE IF ended.kind = "raised"
        THEN [batch EXCEPT !.i = @ + 1]
        ELSE [batch EXCEPT !.results = Append(@, ended.val), !.i = @ + 1]
    /\ ended' = NoCall
    /\ UNCHANGED <<clientes, inventario, pedidos, seq, pc, op, loc, tx, err,
                   rbErr, conn, pool, log, base, alone, calls, faults>>

\* return results
sequenceReturn ==
    /\ batch.pc = "sequence"
    /\ ended.kind = "none"
    /\ \A u \in Units : pc[u] = "idle"
    /\ batch.i = batch.length
    /\ batch' = [batch EXCEPT !.pc = "done", !.return = batch.results]
    /\ ended' = NoCall
    /\ UNCHANGED <<clientes, inventario, pedidos, seq, pc, op, loc, tx, err,
                   rbErr, conn, pool, log, base, alone, calls, faults>>

----------------------------------------------------------------------------
(* server: POST /api/orders *)

\* req.body, by what the route looks at: whether cliente has nombre and
\* email, whether producto and cantidad are there and not falsy, and the
\* productos array (absent or empty: <<>>)
Item(producto, cantidad) == [producto |-> producto, cantidad |-> cantidad]
ProductosChoices ==
    {<<>>,
     <<Item(Seed[1].producto, 1)>>,
     <<Item(Seed[1].producto, 1), Item(Seed[1].producto, 1)>>,
     <<Item(Seed[1].producto, 1), Item(Seed[1].producto, 0)>>,
     <<Item(Seed[1].producto, 1), Item("", 1)>>}
Bodies ==
    {[cliente |-> "ok", producto |-> TRUE, cantidad |-> TRUE,
      productos |-> l] : l \in ProductosChoices}
    \cup {[cliente |-> "ok", producto |-> FALSE, cantidad |-> FALSE,
           productos |-> l] : l \in ProductosChoices}
    \cup {[cliente |-> c, producto |-> TRUE, cantidad |-> TRUE,
           productos |-> <<>>] : c \in {"noNombre", "noEmail", "none"}}
    \cup {[cliente |-> "ok", producto |-> x, cantidad |-> ~x,
           productos |-> <<>>] : x \in BOOLEAN}

\* a route that only looks whether cliente is there
MissingCliente_Lax(body) == body.cliente = "none"

\* if (!cliente?.nombre || !cliente?.email)
MissingCliente(body) == body.cliente # "ok"

\* const hasSingleProduct = producto && cantidad
HasSingleProduct(body) == body.producto /\ body.cantidad

\* const hasMultipleProducts = productos && Array.isArray(productos) &&
\* productos.length > 0
HasMultipleProducts(body) == body.productos # <<>>

\* productos.filter(p => !p.producto || !p.cantidad).length > 0
InvalidProducts(body) ==
    \E i \in DOMAIN body.productos :
        body.productos[i].producto = "" \/ body.productos[i].cantidad = 0

\* the three early returns with status 400
Rejects(body) ==
    \/ MissingCliente(body)
    \/ ~HasSingleProduct(body) /\ ~HasMultipleProducts(body)
    \/ HasMultipleProducts(body) /\ InvalidProducts(body)

\* res.status(400).json({status: 'error', message: ...})
ValidationError == Error("Missing or invalid fields")

\* orderData: a single product wins over the productos array
OrderData(body) ==
    [NoOp EXCEPT !.kind = "processCompleteOrder",
                 !.body = IF HasSingleProduct(body)
                          THEN [body EXCEPT !.productos = <<>>]
                          ELSE body]

\* app.post('/api/orders', ...): validation, then
\* orderService.processCompleteOrder(orderData)
postApiOrders(u) ==
    \E body \in Bodies :
        IF Rejects(body)
        THEN /\ pc[u] = "idle"
             /\ \A v \in Units : v < u => pc[v] # "idle"
             /\ calls < MaxCalls
             /\ calls' = calls + 1
             /\ ended' = [NoCall EXCEPT
                            !.kind = "rejected", !.unit = u,
                            !.op = [NoOp EXCEPT !.body = body],
                            !.err = ValidationError, !.base = Db,
                            !.alone = \A w \in Units \ {u} : pc[w] = "idle"]
             /\ UNCHANGED <<clientes, inventario, pedidos, seq, pc, op, loc,
                            tx, err, rbErr, conn, pool, log, base, alone,
                            faults, batch>>
        ELSE CallWith(u, OrderData(body)) /\ UNCHANGED batch

----------------------------------------------------------------------------
(* clienteDAO *)

\* a createClient that reuses whatever row has the email
NameMatches_Always(existingClient, nombre) == TRUE

\* createClient: existingClient.nombre !== nombre is the conflict
NameMatches(existingClient, nombre) == existingClient.nombre = nombre

\* a createClient that inserts without looking at the row it found
Exists_Never(existingClient) == FALSE

\* createClient: if (existingClient)
Exists(existingClient) == existingClient # NoRow

\* new Error(`Email ${email} ya existe con diferente nombre: ...`)
EmailConflict == Error("Email ya existe con diferente nombre")

\* createClient, first statement: getClientByEmail(email, dbClient)
getClientByEmail(u) ==
    /\ pc[u] = "getClientByEmail"
    /\ \E f \in FaultChoices :
        IF f
        THEN Failed(u, "Error obteniendo cliente por email", "SELECT")
        ELSE \E nombre \in Names, email \in Emails :
             LET o == [op[u] EXCEPT !.nombre = nombre, !.email = email]
                 existingClient ==
                     Pick({r \in VisClientes(u) : r.email = email}) IN
             IF Exists(existingClient)
             THEN IF ~NameMatches(existingClient, nombre)
                  THEN Statement(u, "rollback", EmailConflict, o,
                                 [loc[u] EXCEPT
                                    !.existingClient = existingClient],
                                 tx[u], seq, "SELECT", TRUE, FALSE)
                  ELSE Continue(u, "getProductByName", o,
                                [loc[u] EXCEPT
                                    !.existingClient = existingClient,
                                    !.createdClient = existingClient],
                                tx[u], seq, "SELECT")
             ELSE Continue(u, "createClient", o, loc[u], tx[u], seq,
                           "SELECT")

\* a table clientes without the constraint on email
Duplicate_Never(rows, email) == FALSE

\* email VARCHAR(100) UNIQUE: the INSERT finds a row with the email
Duplicate(rows, email) == \E r \in rows : r.email = email

\* createClient, second statement: INSERT INTO clientes ... RETURNING *
createClient(u) ==
    /\ pc[u] = "createClient"
    /\ ~EmailInFlight(u, op[u].email)
    /\ \E f \in FaultChoices :
        IF f
        THEN Failed(u, "Error creando cliente", "INSERT")
        ELSE LET id == seq.cli + 1
                 row == [id |-> id, nombre |-> op[u].nombre,
                         email |-> op[u].email]
                 drawn == [seq EXCEPT !.cli = id] IN
             IF Duplicate(VisClientes(u), op[u].email)
             THEN \* email VARCHAR(100) UNIQUE
                  Violation(u, WrapError("Error creando cliente",
                                         DbError("INSERT", "23505")),
                            drawn, "INSERT")
             ELSE Continue(u, "getProductByName", op[u],
                           [loc[u] EXCEPT !.createdClient = row],
                           [tx[u] EXCEPT !.cli = @ \cup {row}],
                           drawn, "INSERT")

\* a service that goes on without the customer row
NotFound_Never(existingClient) == FALSE

\* if (!existingClient) throw new Error(`Cliente con ID ... no encontrado`)
NotFound(existingClient) == existingClient = NoRow

\* getClientById: SELECT * FROM clientes WHERE id = $1 (the service keeps
\* the row in existingClient; the model keeps it in createdClient)
getClientById(u) ==
    /\ pc[u] = "getClientById"
    /\ \E f \in FaultChoices :
        IF f
        THEN Failed(u, "Error obteniendo cliente", "SELECT")
        ELSE \E id \in ClienteIds :
             LET o == [op[u] EXCEPT !.cliente_id = id]
                 existingClient == Pick({r \in VisClientes(u) : r.id = id}) IN
             IF NotFound(existingClient)
             THEN Throw(u, Error("Cliente no encontrado"), o, "SELECT")
             ELSE Continue(u, "getProductByName", o,
                           [loc[u] EXCEPT !.createdClient = existingClient],
                           tx[u], seq, "SELECT")

----------------------------------------------------------------------------
(* inventarioDAO *)

\* a checkStock that lets every quantity through
HasStock_Always(currentStock, quantity) == TRUE

\* checkStock: return currentStock >= quantity
HasStock(currentStock, quantity) == currentStock >= quantity

\* an updateStock that writes back the stock it read
NewStock_NoDecrement(stock, quantity) == stock

\* updateStock: const newStock = product.stock - quantity
NewStock(stock, quantity) == stock - quantity

\* an updateStock without its own check
Insufficient_Never(newStock) == FALSE

\* updateStock: if (newStock < 0) throw
Insufficient(newStock) == newStock < 0

\* a restoreStock that adds nothing
RestoredStock_Same(stock, quantity) == stock

\* restoreStock: SET stock = stock + $1
RestoredStock(stock, quantity) == stock + quantity

\* const { cliente, producto, cantidad, simulateError } = orderData: the
\* route passes no producto with a productos list, and a cantidad that is
\* not falsy with a single product
ProductChoices(o) ==
    IF o.body.productos # <<>> THEN {"undefined"} ELSE ProductNames
QuantityChoices(o) ==
    IF o.body = NoBody THEN Quantities ELSE Quantities \ {0}

\* a service that ignores the request for a simulated failure
Forced_Never(simulateError) == FALSE

\* if (simulateError) forceError(...) / simulateRandomError(1.0, ...)
Forced(simulateError) == simulateError

\* new Error('Error simulado: ...')
SimulatedFailure == Error("Error simulado")

\* getProductByName: SELECT * FROM inventario WHERE producto = $1
\* a service that decrements the stock before it inserts the order row
AfterCheckStock_StockFirst == "updateStockSelect"

\* step 4 of the order services follows the stock check and the simulated
\* error: await pedidoDAO.createOrder(...), and only then updateStock
AfterCheckStock == "createOrder"

getProductByName(u) ==
    /\ pc[u] = "getProductByName"
    /\ \E f \in FaultChoices :
        IF f
        THEN Failed(u, "Error obteniendo producto por nombre", "SELECT")
        ELSE \E producto \in ProductChoices(op[u]) :
             LET o == [op[u] EXCEPT !.producto = producto]
                 foundProduct ==
                     Pick({VisInventario(u)[p] : p \in
                            {i \in ProductIds :
                                inventario[i].producto = producto}}) IN
             IF foundProduct = NoRow
             THEN Throw(u, Error("Producto no encontrado"), o, "SELECT")
             ELSE Continue(u, "checkStock", o,
                           [loc[u] EXCEPT !.foundProduct = foundProduct],
                           tx[u], seq, "SELECT")

\* checkStock: SELECT stock FROM inventario WHERE id = $1, and the
\* synchronous code of the service up to its next statement
checkStock(u) ==
    /\ pc[u] = "checkStock"
    /\ \E f \in FaultChoices :
        IF f
        THEN Failed(u, "Error verificando stock", "SELECT")
        ELSE \E cantidad \in QuantityChoices(op[u]) :
             LET o == [op[u] EXCEPT !.cantidad = cantidad]
                 currentStock ==
                     VisInventario(u)[loc[u].foundProduct.id].stock IN
             IF ~HasStock(currentStock, cantidad)
             THEN Throw(u, Error("Stock insuficiente"), o, "SELECT")
             ELSE \E simulateError \in BOOLEAN :
                  LET o2 == [o EXCEPT !.simulateError = simulateError] IN
                  IF Forced(simulateError)
                  THEN Throw(u, SimulatedFailure, o2, "SELECT")
                  ELSE Continue(u, AfterCheckStock, o2, loc[u], tx[u], seq,
                                "SELECT")

\* an updateStock that trusts the row the service looked up before
StockRead_Stale(product, foundProduct) == foundProduct.stock

\* const product = checkResult.rows[0]: the stock updateStock works on is
\* the one its own SELECT returns
StockRead(product, foundProduct) == product.stock

\* updateStock, first statement: SELECT * FROM inventario WHERE id = $1
updateStockSelect(u) ==
    /\ pc[u] = "updateStockSelect"
    /\ \E f \in FaultChoices :
        IF f
        THEN Failed(u, "Error actualizando stock", "SELECT")
        ELSE LET product == VisInventario(u)[loc[u].foundProduct.id]
                 newStock == NewStock(StockRead(product, loc[u].foundProduct),
                                      op[u].cantidad) IN
             IF Insufficient(newStock)
             THEN Throw(u, WrapError("Error actualizando stock",
                                     Error("Stock insuficiente")),
                        op[u], "SELECT")
             ELSE Continue(u, "updateStockUpdate", op[u],
                           [loc[u] EXCEPT !.newStock = newStock],
                           tx[u], seq, "SELECT")

\* an UPDATE that decrements the stock the row holds when it is written
\* (SET stock = stock - $1)
Written_Relative(newStock, stock, quantity) == stock - quantity

\* SET stock = $1 with $1 = newStock: the value computed from the row that
\* updateStock read before, whatever the row holds now
Written(newStock, stock, quantity) == newStock

\* the value a service returns from its unit of work
Result(u, l) ==
    CASE op[u].kind = "createOrder" -> [pedido |-> l.createdOrder]
      [] op[u].kind = "processCompleteOrder" ->
            [cliente |-> l.createdClient, producto |-> l.updatedProduct,
             pedido |-> l.createdOrder,
             resumen |-> [cliente_nombre |-> l.createdClient.nombre,
                          producto_nombre |-> l.foundProduct.producto,
                          cantidad_pedida |-> op[u].cantidad,
                          precio_unitario |-> l.foundProduct.precio,
                          total_pedido |-> l.createdOrder.total,
                          stock_anterior |-> l.foundProduct.stock,
                          stock_nuevo |-> l.updatedProduct.stock]]
      [] op[u].kind = "processOrderWithExistingClient" ->
            [cliente |-> l.createdClient, producto |-> l.updatedProduct,
             pedido |-> l.createdOrder]
      [] OTHER ->
            [order |-> l.cancelResult.order, producto |-> l.updatedProduct]

\* an UPDATE without its WHERE clause
Selected_All(ids, id) == ids

\* UPDATE inventario ... WHERE id = $2: the rows the statement writes
Selected(ids, id) == {i \in ids : i = id}

\* updateStock, second statement: UPDATE inventario SET stock = $1 ...
\* RETURNING *; the service then returns its result
updateStockUpdate(u) ==
    /\ pc[u] = "updateStockUpdate"
    /\ ~ProductLocked(u, loc[u].foundProduct.id)
    /\ \E f \in FaultChoices :
        IF f
        THEN Failed(u, "Error actualizando stock", "UPDATE")
        ELSE LET p == loc[u].foundProduct.id
                 stock == Written(loc[u].newStock, VisInventario(u)[p].stock,
                                  op[u].cantidad)
                 rows == Selected(ProductIds, p)
                 newTx == [tx[u] EXCEPT
                             !.upd = @ \cup rows,
                             !.stk = [q \in ProductIds |->
                                        IF q \in rows THEN stock ELSE @[q]]]
                 row == [inventario[p] EXCEPT !.stock = stock]
                 l == [loc[u] EXCEPT !.updatedProduct = row] IN
             Continue(u, "commit", op[u], [l EXCEPT !.result = Result(u, l)],
                      newTx, seq, "UPDATE")

\* restoreStock: UPDATE inventario SET stock = stock + $1 ... RETURNING *;
\* the service then returns its result
restoreStock(u) ==
    /\ pc[u] = "restoreStock"
    /\ ~ProductLocked(u, loc[u].order.producto_id)
    /\ \E f \in FaultChoices :
        IF f
        THEN Failed(u, "Error restaurando stock", "UPDATE")
        ELSE LET p == loc[u].order.producto_id
                 stock == RestoredStock(VisInventario(u)[p].stock,
                                        loc[u].order.cantidad)
                 rows == Selected(ProductIds, p)
                 newTx == [tx[u] EXCEPT
                             !.upd = @ \cup rows,
                             !.stk = [q \in ProductIds |->
                                        IF q \in rows THEN stock ELSE @[q]]]
                 row == [inventario[p] EXCEPT !.stock = stock]
                 l == [loc[u] EXCEPT !.updatedProduct = row] IN
             Continue(u, "commit", op[u], [l EXCEPT !.result = Result(u, l)],
                      newTx, seq, "UPDATE")

----------------------------------------------------------------------------
(* pedidoDAO *)

\* a createOrder that stores the unit price as the total
Total_Unit(cantidad, precio_unitario) == precio_unitario

\* createOrder: const total = cantidad * precio_unitario
Total(cantidad, precio_unitario) == cantidad * precio_unitario

\* createOrder: INSERT INTO pedidos ... RETURNING *
\* a table pedidos without the REFERENCES clause on cliente_id
References_Any(rows, id) == TRUE

\* cliente_id INTEGER NOT NULL REFERENCES clientes(id): a row with the id
\* exists
References(rows, id) == \E c \in rows : c.id = id

\* a unit of work made of pedidoDAO.createOrder alone, run through
\* executeOrderTransaction
createOrderAlone(u) == Call(u, "createOrder")

\* an id no product has
NoProduct == Len(Seed) + 1

\* the order argument of that call: { cliente_id, producto_id, cantidad,
\* precio_unitario }, whatever ids the caller passes
orderInfo(u) ==
    /\ pc[u] = "orderInfo"
    /\ \E cliente_id \in ClienteIds, producto_id \in ProductIds \cup {NoProduct},
          cantidad \in Quantities :
        /\ op' = [op EXCEPT ![u] = [@ EXCEPT !.cliente_id = cliente_id,
                                             !.cantidad = cantidad]]
        /\ loc' = [loc EXCEPT ![u] =
                      [@ EXCEPT !.createdClient = [id |-> cliente_id],
                                !.foundProduct =
                                    [id |-> producto_id,
                                     precio |-> Seed[1].precio]]]
    /\ pc' = [pc EXCEPT ![u] = "createOrder"]
    /\ ended' = NoCall
    /\ UNCHANGED <<clientes, inventario, pedidos, seq, tx, err, rbErr, conn,
                   pool, log, base, alone, calls, faults, batch>>

\* what follows createOrder: updateStock in the order services, the end of
\* the unit when it is made of createOrder alone
AfterCreateOrder(kind) ==
    IF kind = "createOrder" THEN "commit" ELSE "updateStockSelect"

createOrder(u) ==
    /\ pc[u] = "createOrder"
    /\ \E f \in FaultChoices :
        IF f
        THEN Failed(u, "Error creando pedido", "INSERT")
        ELSE LET id == seq.ped + 1
                 row == [id |-> id,
                         cliente_id |-> loc[u].createdClient.id,
                         producto_id |-> loc[u].foundProduct.id,
                         cantidad |-> op[u].cantidad,
                         precio_unitario |-> loc[u].foundProduct.precio,
                         total |-> Total(op[u].cantidad,
                                         loc[u].foundProduct.precio),
                         estado |-> "pendiente"]
                 drawn == [seq EXCEPT !.ped = id] IN
             IF ~(row.cantidad > 0)
             THEN \* CHECK (cantidad > 0)
                  Violation(u, WrapError("Error creando pedido",
                                         DbError("INSERT", "23514")),
                            drawn, "INSERT")
             ELSE IF ~References(VisClientes(u), row.cliente_id)
             THEN \* REFERENCES clientes(id)
                  Violation(u, Error("Cliente no encontrado"), drawn, "INSERT")
             ELSE IF row.producto_id \notin ProductIds
             THEN \* REFERENCES inventario(id)
                  Violation(u, Error("Producto no encontrado"), drawn,
                            "INSERT")
             ELSE LET l == [loc[u] EXCEPT !.createdOrder = row] IN
                  Continue(u, AfterCreateOrder(op[u].kind), op[u],
                           IF op[u].kind = "createOrder"
                           THEN [l EXCEPT !.result = Result(u, l)] ELSE l,
                           [tx[u] EXCEPT !.ped = @ \cup {row}],
                           drawn, "INSERT")

\* getOrderById: SELECT p.*, ... FROM pedidos p JOIN clientes c JOIN
\* inventario i WHERE p.id = $1, and the checks of the service
\* a WHERE clause that selects every order
Matches_Any(r, orderId) == TRUE

\* WHERE p.id = $1 / WHERE id = $1
Matches(r, orderId) == r.id = orderId

\* a DELETE that removes nothing
Deleted_None(del, orderId, rowCount) == del

\* DELETE FROM pedidos WHERE id = $1: the rows this transaction has deleted
Deleted(del, orderId, rowCount) ==
    IF rowCount > 0 THEN del \cup {orderId} ELSE del

getOrderById(u) ==
    /\ pc[u] = "getOrderById"
    /\ \E f \in FaultChoices :
        IF f
        THEN Failed(u, "Error obteniendo pedido", "SELECT")
        ELSE \E orderId \in PedidoIds :
             LET o == [op[u] EXCEPT !.orderId = orderId]
                 order ==
                     Pick({r \in VisPedidos(u) :
                            /\ Matches(r, orderId)
                            /\ \E c \in VisClientes(u) : c.id = r.cliente_id
                            /\ r.producto_id \in ProductIds}) IN
             IF order = NoRow
             THEN Throw(u, Error("Pedido no encontrado"), o, "SELECT")
             ELSE IF order.estado = "cancelado"
             THEN Throw(u, Error("El pedido ya esta cancelado"), o, "SELECT")
             ELSE Continue(u, "cancelOrderSelect", o,
                           [loc[u] EXCEPT !.order = order], tx[u], seq,
                           "SELECT")

\* cancelOrder, first statement: SELECT * FROM pedidos WHERE id = $1
cancelOrderSelect(u) ==
    /\ pc[u] = "cancelOrderSelect"
    /\ \E f \in FaultChoices :
        IF f
        THEN Failed(u, "Error cancelando pedido", "SELECT")
        ELSE LET row == Pick({r \in VisPedidos(u) :
                                Matches(r, op[u].orderId)}) IN
             IF row = NoRow
             THEN Throw(u, WrapError("Error cancelando pedido",
                                     Error("Pedido no encontrado")),
                        op[u], "SELECT")
             ELSE Continue(u, "cancelOrderDelete", op[u],
                           [loc[u] EXCEPT !.cancelResult =
                                [success |-> FALSE, order |-> row]],
                           tx[u], seq, "SELECT")

\* cancelOrder, second statement: DELETE FROM pedidos WHERE id = $1
cancelOrderDelete(u) ==
    /\ pc[u] = "cancelOrderDelete"
    /\ ~PedidoLocked(u, op[u].orderId)
    /\ \E f \in FaultChoices :
        IF f
        THEN Failed(u, "Error cancelando pedido", "DELETE")
        ELSE LET rowCount ==
                     Cardinality({r \in VisPedidos(u) :
                                    Matches(r, op[u].orderId)}) IN
             Continue(u, "restoreStock", op[u],
                      [loc[u] EXCEPT !.cancelResult.success = rowCount > 0],
                      [tx[u] EXCEPT !.del =
                            Deleted(@, op[u].orderId, rowCount)],
                      seq, "DELETE")

----------------------------------------------------------------------------
(* orderService: getOrderSummary, and the queries it runs *)

getOrderSummary(u) == Call(u, "getOrderSummary")

RECURSIVE Sum(_)
\* SUM(total) over a non-empty set of order rows
Sum(rows) ==
    IF rows = {} THEN 0
    ELSE LET r == CHOOSE r \in rows : TRUE IN r.total + Sum(rows \ {r})

\* SELECT COUNT(*), SUM(total), COUNT(DISTINCT cliente_id) FROM pedidos
\* (SUM of no rows is NULL; AVG(total) is the quotient of the first two)
Statistics(rows) ==
    [total_pedidos |-> Cardinality(rows),
     ingresos_totales |-> IF rows = {} THEN "NULL" ELSE Sum(rows),
     clientes_unicos |-> Cardinality({r.cliente_id : r \in rows})]

getOrderStatistics(u) ==
    /\ pc[u] = "getOrderStatistics"
    /\ \E f \in FaultChoices :
        IF f
        THEN Failed(u, "Error obteniendo estadisticas de pedidos", "SELECT")
        ELSE Continue(u, "getAllOrders", op[u],
                      [loc[u] EXCEPT !.statistics = Statistics(VisPedidos(u))],
                      tx[u], seq, "SELECT")

RECURSIVE Descending(_)
\* ORDER BY p.fecha_pedido DESC: fecha_pedido is the time of the insert,
\* and the ids are drawn in that order
Descending(rows) ==
    IF rows = {} THEN <<>>
    ELSE LET r == CHOOSE r \in rows : \A o \in rows : o.id <= r.id IN
         <<r>> \o Descending(rows \ {r})

\* FROM pedidos p JOIN clientes c ON p.cliente_id = c.id
\*                JOIN inventario i ON p.producto_id = i.id
Joined(orders, customers) ==
    {r \in orders : /\ \E c \in customers : c.id = r.cliente_id
                    /\ r.producto_id \in ProductIds}

\* Array.prototype.slice(0, end)
Slice(rows, end) ==
    SubSeq(rows, 1, IF end < Len(rows) THEN end ELSE Len(rows))

getAllOrders(u) ==
    /\ pc[u] = "getAllOrders"
    /\ \E f \in FaultChoices :
        IF f
        THEN Failed(u, "Error obteniendo pedidos", "SELECT")
        ELSE Continue(u, "getLowStockProducts", op[u],
                      [loc[u] EXCEPT !.recentOrders =
                          Descending(Joined(VisPedidos(u), VisClientes(u)))],
                      tx[u], seq, "SELECT")

\* a query that leaves out the products exactly at their minimum
LowStock_Below(p) == p.stock < p.stock_minimo

\* WHERE stock <= stock_minimo
LowStock(p) == p.stock <= p.stock_minimo

\* getLowStockProducts, and the value the service returns
getLowStockProducts(u) ==
    /\ pc[u] = "getLowStockProducts"
    /\ \E f \in FaultChoices :
        IF f
        THEN Failed(u, "Error obteniendo productos con stock bajo", "SELECT")
        ELSE LET lowStockProducts ==
                     {VisInventario(u)[p] : p \in
                        {i \in ProductIds : LowStock(VisInventario(u)[i])}}
                 l == [loc[u] EXCEPT !.lowStockProducts = lowStockProducts] IN
             Continue(u, "commit", op[u],
                      [l EXCEPT !.result =
                          [estadisticas |-> l.statistics,
                           pedidos_recientes |->
                               Slice(l.recentOrders, RecentLimit),
                           productos_stock_bajo |-> l.lowStockProducts]],
                      tx[u], seq, "SELECT")

----------------------------------------------------------------------------
(* init.js: cleanDatabase.  The script works on the whole store: the three *)
(* tables and the SERIAL sequences; work is the store as the open          *)
(* transaction of the script sees it.                                      *)

Store == [clientes |-> clientes, inventario |-> inventario,
          pedidos |-> pedidos, seq |-> seq]

\* a table that was dropped
NoTable == {NoRow}
NoInventario == [p \in {0} |-> NoRow]

\* the customers the test runs create: email LIKE '%@empresa.cl' OR
\* LIKE '%@startup.cl' OR LIKE '%@consultora.cl' OR LIKE 'test@%'
TestEmails == {"test@x.cl", "ana@empresa.cl"}

\* the stock the test mode resets a product to: CASE WHEN producto = ...
\* THEN ... ELSE stock END
ResetStock(row) ==
    CASE row.producto = "Laptop Gaming" -> 10
      [] row.producto = "Mouse Inalambrico" -> 50
      [] OTHER -> row.stock

Modes == {"full", "test", "drop", "other"}

Sql(verb, table) == [verb |-> verb, table |-> table]

\* the statements of a mode, in the order the script issues them
Statements(mode) ==
    CASE mode = "full" -> <<Sql("TRUNCATE", "pedidos"),
                            Sql("TRUNCATE", "clientes"),
                            Sql("TRUNCATE", "inventario")>>
      [] mode = "test" -> <<Sql("DELETE", "pedidos"),
                            Sql("DELETE", "clientes"),
                            Sql("UPDATE", "inventario")>>
      [] mode = "drop" -> <<Sql("DROP", "pedidos"),
                            Sql("DROP", "inventario"),
                            Sql("DROP", "clientes")>>
      [] OTHER -> <<>>

\* default: throw new Error(`Invalid cleaning mode: ...`)
InvalidMode(mode) == mode \notin {"full", "test", "drop"}

HasTable(st, table) ==
    CASE table = "pedidos" -> st.pedidos # NoTable
      [] table = "clientes" -> st.clientes # NoTable
      [] OTHER -> st.inventario # NoInventario

\* the tables a statement cannot run without (DROP TABLE IF EXISTS needs
\* none; the DELETE of the test orders selects from clientes)
Needed(stmt) ==
    CASE stmt.verb = "DROP" -> {}
      [] stmt = Sql("DELETE", "pedidos") -> {"pedidos", "clientes"}
      [] OTHER -> {stmt.table}

\* TRUNCATE ... RESTART IDENTITY CASCADE and ON DELETE CASCADE reach the
\* orders
Emptied(st) ==
    IF HasTable(st, "pedidos")
    THEN [st EXCEPT !.pedidos = {}, !.seq.ped = 0]
    ELSE st

TestClients(st) == {c \in st.clientes : c.email \in TestEmails}

WithoutOrdersOf(st, customers) ==
    IF HasTable(st, "pedidos")
    THEN [st EXCEPT !.pedidos =
            {r \in @ : ~ \E c \in customers : c.id = r.cliente_id}]
    ELSE st

\* the store st after the statement stmt
Run(st, stmt) ==
    CASE stmt = Sql("TRUNCATE", "pedidos") -> Emptied(st)
      [] stmt = Sql("TRUNCATE", "clientes") ->
            [Emptied(st) EXCEPT !.clientes = {}, !.seq.cli = 0]
      [] stmt = Sql("TRUNCATE", "inventario") ->
            [Emptied(st) EXCEPT !.inventario = <<>>]
      [] stmt = Sql("DELETE", "pedidos") ->
            WithoutOrdersOf(st, TestClients(st))
      [] stmt = Sql("DELETE", "clientes") ->
            [WithoutOrdersOf(st, TestClients(st)) EXCEPT
                !.clientes = @ \ TestClients(st)]
      [] stmt = Sql("UPDATE", "inventario") ->
            [st EXCEPT !.inventario =
                [p \in DOMAIN st.inventario |->
                    [st.inventario[p] EXCEPT
                        !.stock = ResetStock(st.inventario[p])]]]
      [] stmt = Sql("DROP", "pedidos") ->
            [st EXCEPT !.pedidos = NoTable, !.seq.ped = 0]
      [] stmt = Sql("DROP", "clientes") ->
            [st EXCEPT !.clientes = NoTable, !.seq.cli = 0]
      [] OTHER -> [st EXCEPT !.inventario = NoInventario]

RECURSIVE RunAll(_, _)
\* the store st after the statements stmts, one after the other
RunAll(st, stmts) ==
    IF stmts = <<>> THEN st ELSE RunAll(Run(st, Head(stmts)), Tail(stmts))

\* one step of the script on the connection of u: the variables it leaves
\* alone
CleanStep(u, l, e, work, stmt, ok, fault) ==
    /\ pc' = [pc EXCEPT ![u] = l]
    /\ err' = [err EXCEPT ![u] = e]
    /\ loc' = [loc EXCEPT ![u].work = work]
    /\ log' = [log EXCEPT ![u] = Logged(u, stmt, ok)]
    /\ faults' = IF fault THEN faults + 1 ELSE faults
    /\ ended' = NoCall
    /\ UNCHANGED <<clientes, inventario, pedidos, seq, op, tx, rbErr, conn,
                   pool, base, alone, calls, batch>>

\* cleanDatabase(mode): const client = await pool.connect(), outside the try
cleanDatabase(u) ==
    /\ \A v \in Units : pc[v] = "idle"
    /\ \A v \in Units : v < u => pc[v] # "idle"
    /\ calls < MaxCalls
    /\ calls' = calls + 1
    /\ \E mode \in Modes, f \in FaultChoices :
        LET o == [NoOp EXCEPT !.kind = "cleanDatabase", !.mode = mode] IN
        IF f \/ FreeConns = {}
        THEN LET e == DbError("connect", "ETIMEDOUT") IN
             /\ ended' = [NoCall EXCEPT !.kind = "raised", !.unit = u,
                                        !.op = o, !.err = e, !.caught = e,
                                        !.base = Store]
             /\ faults' = IF f THEN faults + 1 ELSE faults
             /\ UNCHANGED <<pc, op, conn, pool, base>>
        ELSE LET c == CHOOSE c \in FreeConns : \A d \in FreeConns : c <= d IN
             /\ pc' = [pc EXCEPT ![u] = "cleanBegin"]
             /\ op' = [op EXCEPT ![u] = o]
             /\ conn' = [conn EXCEPT ![u] = c]
             /\ pool' = pool \cup {c}
             /\ base' = [base EXCEPT ![u] = Store]
             /\ ended' = NoCall
             /\ UNCHANGED faults
    /\ UNCHANGED <<clientes, inventario, pedidos, seq, loc, tx, err, rbErr,
                   log, alone, batch>>

\* await client.query('BEGIN')
cleanBegin(u) ==
    /\ pc[u] = "cleanBegin"
    /\ \E f \in FaultChoices :
        IF f
        THEN CleanStep(u, "cleanRollback", DbError("BEGIN", "08006"),
                       loc[u].work, "BEGIN", FALSE, TRUE)
        ELSE CleanStep(u, "cleanSwitch", NoErr, Store, "BEGIN", TRUE, FALSE)

\* switch (mode): the next await client.query(...) of the chosen case, or
\* the throw of the default case
cleanStatement(u) ==
    /\ pc[u] = "cleanSwitch"
    /\ LET stmts == Statements(op[u].mode)
           stmt == stmts[Len(log[u])] IN
        IF InvalidMode(op[u].mode)
        THEN /\ pc' = [pc EXCEPT ![u] = "cleanRollback"]
             /\ err' = [err EXCEPT ![u] = Error("Invalid cleaning mode")]
             /\ ended' = NoCall
             /\ UNCHANGED <<clientes, inventario, pedidos, seq, op, loc, tx,
                            rbErr, conn, pool, log, base, alone, calls,
                            faults, batch>>
        ELSE \E f \in FaultChoices :
             IF f
             THEN CleanStep(u, "cleanRollback", DbError(stmt.verb, "08006"),
                            loc[u].work, stmt.verb, FALSE, TRUE)
             ELSE IF \E t \in Needed(stmt) : ~HasTable(loc[u].work, t)
             THEN \* relation does not exist
                  CleanStep(u, "cleanRollback", DbError(stmt.verb, "42P01"),
                            loc[u].work, stmt.verb, FALSE, FALSE)
             ELSE CleanStep(u, IF Len(log[u]) = Len(stmts) THEN "cleanCommit"
                               ELSE "cleanSwitch",
                            NoErr, Run(loc[u].work, stmt), stmt.verb, TRUE,
                            FALSE)

\* await client.query('COMMIT')
cleanCommit(u) ==
    /\ pc[u] = "cleanCommit"
    /\ \E f \in FaultChoices :
        LET after == IF f THEN Store ELSE loc[u].work IN
        /\ clientes' = after.clientes
        /\ inventario' = after.inventario
        /\ pedidos' = after.pedidos
        /\ seq' = after.seq
        /\ pc' = [pc EXCEPT ![u] = IF f THEN "cleanRollback" ELSE "cleanEnd"]
        /\ err' = [err EXCEPT ![u] =
                      IF f THEN DbError("COMMIT", "08006") ELSE NoErr]
        /\ log' = [log EXCEPT ![u] = Logged(u, "COMMIT", ~f)]
        /\ faults' = IF f THEN faults + 1 ELSE faults
    /\ ended' = NoCall
    /\ UNCHANGED <<op, loc, tx, rbErr, conn, pool, base, alone, calls, batch>>

\* catch (error) { await client.query('ROLLBACK'); ...; throw error }: the
\* ROLLBACK is awaited bare, so its error leaves the catch block in place of
\* error; either way the store drops what the transaction did
cleanRollback(u) ==
    /\ pc[u] = "cleanRollback"
    /\ \E f \in FaultChoices :
        /\ rbErr' = [rbErr EXCEPT ![u] =
                        IF f THEN DbError("ROLLBACK", "08006") ELSE NoErr]
        /\ log' = [log EXCEPT ![u] = Logged(u, "ROLLBACK", ~f)]
        /\ faults' = IF f THEN faults + 1 ELSE faults
    /\ pc' = [pc EXCEPT ![u] = "cleanEnd"]
    /\ loc' = [loc EXCEPT ![u].work = NoRow]
    /\ ended' = NoCall
    /\ UNCHANGED <<clientes, inventario, pedidos, seq, op, tx, err, conn,
                   pool, base, alone, calls, batch>>

\* what cleanDatabase throws: the error of ROLLBACK when ROLLBACK failed,
\* else the error the catch block caught
CleanThrown(error, rollbackError) ==
    IF rollbackError # NoErr THEN rollbackError ELSE error

\* finally { client.release() }: the promise of cleanDatabase settles
cleanEnd(u) ==
    /\ pc[u] = "cleanEnd"
    /\ ended' = [NoCall EXCEPT
                    !.kind = IF err[u] = NoErr THEN "returned" ELSE "raised",
                    !.unit = u, !.op = op[u],
                    !.err = CleanThrown(err[u], rbErr[u]),
                    !.caught = err[u], !.rbErr = rbErr[u], !.log = log[u],
                    !.conn = conn[u], !.released = 1, !.base = base[u]]
    /\ pool' = pool \ {conn[u]}
    /\ pc' = [pc EXCEPT ![u] = "idle"]
    /\ op' = [op EXCEPT ![u] = NoOp]
    /\ loc' = [loc EXCEPT ![u] = NoLoc]
    /\ err' = [err EXCEPT ![u] = NoErr]
    /\ rbErr' = [rbErr EXCEPT ![u] = NoErr]
    /\ conn' = [conn EXCEPT ![u] = 0]
    /\ log' = [log EXCEPT ![u] = <<>>]
    /\ base' = [base EXCEPT ![u] = NoDb]
    /\ UNCHANGED <<clientes, inventario, pedidos, seq, tx, alone, calls,
                   faults, batch>>

----------------------------------------------------------------------------
Next ==
    \E u \in Units :
        \/ processCompleteOrder(u)
        \/ processOrderWithExistingClient(u)
        \/ cancelOrderAndRestoreInventory(u)
        \/ Begin(u)
        \/ Commit(u)
        \/ Rollback(u)
        \/ Finish(u)
        \/ getClientByEmail(u)
        \/ createClient(u)
        \/ getClientById(u)
        \/ getProductByName(u)
        \/ checkStock(u)
        \/ createOrder(u)
        \/ updateStockSelect(u)
        \/ updateStockUpdate(u)
        \/ getOrderById(u)
        \/ cancelOrderSelect(u)
        \/ cancelOrderDelete(u)
        \/ restoreStock(u)

Spec == Init /\ [][Next]_vars

\* connections that other requests of the server keep checked out
Busy == 1..(PoolMax - 2)

\* the server under load: the other requests hold all the connections of
\* the pool but two, or all but one
PoolInit ==
    /\ clientes = {}
    /\ inventario = [p \in 1..Len(Seed) |->
                        [id |-> p, producto |-> Seed[p].producto,
                         precio |-> Seed[p].precio, stock |-> InitStock,
                         stock_minimo |-> DefaultStockMinimo]]
    /\ pedidos = {}
    /\ seq = [cli |-> 0, ped |-> 0]
    /\ pc = [u \in Units |-> "idle"]
    /\ op = [u \in Units |-> NoOp]
    /\ loc = [u \in Units |-> NoLoc]
    /\ tx = [u \in Units |-> NoTx]
    /\ err = [u \in Units |-> NoErr]
    /\ rbErr = [u \in Units |-> NoErr]
    /\ conn = [u \in Units |-> 0]
    /\ pool \in {Busy, Busy \cup {PoolMax - 1}}
    /\ log = [u \in Units |-> <<>>]
    /\ ended = NoCall
    /\ base = [u \in Units |-> NoDb]
    /\ alone = [u \in Units |-> TRUE]
    /\ calls = 0
    /\ faults = 0
    /\ batch = NoBatch

PoolSpec == PoolInit /\ [][Next]_vars

\* the steps of the unit of work of u once its call has been made
Step(u) ==
    \/ Begin(u)
    \/ Commit(u)
    \/ Rollback(u)
    \/ Finish(u)
    \/ getClientByEmail(u)
    \/ createClient(u)
    \/ getClientById(u)
    \/ getProductByName(u)
    \/ checkStock(u)
    \/ createOrder(u)
    \/ updateStockSelect(u)
    \/ updateStockUpdate(u)
    \/ getOrderById(u)
    \/ cancelOrderSelect(u)
    \/ cancelOrderDelete(u)
    \/ restoreStock(u)

\* the event loop and the store keep every unit of work going: a step that
\* stays possible is taken
FairSpec == Spec /\ \A u \in Units : WF_vars(Step(u))

\* the caller awaits each service call before it makes the next one
Idle == \A u \in Units : pc[u] = "idle"

SeqNext ==
    \E u \in Units :
        \/ Idle /\ processCompleteOrder(u)
        \/ Idle /\ processOrderWithExistingClient(u)
        \/ Idle /\ cancelOrderAndRestoreInventory(u)
        \/ Begin(u)
        \/ Commit(u)
        \/ Rollback(u)
        \/ Finish(u)
        \/ getClientByEmail(u)
        \/ createClient(u)
        \/ getClientById(u)
        \/ getProductByName(u)
        \/ checkStock(u)
        \/ createOrder(u)
        \/ updateStockSelect(u)
        \/ updateStockUpdate(u)
        \/ getOrderById(u)
        \/ cancelOrderSelect(u)
        \/ cancelOrderDelete(u)
        \/ restoreStock(u)

SeqSpec == Init /\ [][SeqNext]_vars

\* the repository of orders called on its own, between orders placed
\* through processCompleteOrder, one call after the other
DaoNext ==
    \E u \in Units :
        \/ Idle /\ processCompleteOrder(u)
        \/ Idle /\ createOrderAlone(u)
        \/ orderInfo(u)
        \/ Begin(u)
        \/ Commit(u)
        \/ Rollback(u)
        \/ Finish(u)
        \/ getClientByEmail(u)
        \/ createClient(u)
        \/ getProductByName(u)
        \/ checkStock(u)
        \/ createOrder(u)
        \/ updateStockSelect(u)
        \/ updateStockUpdate(u)

DaoSpec == Init /\ [][DaoNext]_vars

\* orders placed through the route only
RouteNext ==
    \E u \in Units :
        \/ postApiOrders(u)
        \/ Begin(u)
        \/ Commit(u)
        \/ Rollback(u)
        \/ Finish(u)
        \/ getClientByEmail(u)
        \/ createClient(u)
        \/ getProductByName(u)
        \/ checkStock(u)
        \/ createOrder(u)
        \/ updateStockSelect(u)
        \/ updateStockUpdate(u)

RouteSpec == Init /\ [][RouteNext]_vars

\* one batch of orders, its items one after the other
BatchNext ==
    \/ batchProcessOrders
    \/ batchCollect
    \/ batchReturn
    \/ \E u \in Units :
        \/ batchItem(u)
        \/ Begin(u)
        \/ Commit(u)
        \/ Rollback(u)
        \/ Finish(u)
        \/ getClientByEmail(u)
        \/ createClient(u)
        \/ getProductByName(u)
        \/ checkStock(u)
        \/ createOrder(u)
        \/ updateStockSelect(u)
        \/ updateStockUpdate(u)

BatchSpec == Init /\ [][BatchNext]_vars

\* the store with the first two seeded products, the second one just above
\* its minimum stock
FrameInit ==
    /\ clientes = {}
    /\ inventario = [p \in 1..Len(inventoryItems) |->
                        [id |-> p, producto |-> inventoryItems[p].producto,
                         precio |-> inventoryItems[p].precio,
                         stock |-> IF p = 1 THEN InitStock
                                   ELSE DefaultStockMinimo + 1,
                         stock_minimo |-> DefaultStockMinimo]]
    /\ pedidos = {}
    /\ seq = [cli |-> 0, ped |-> 0]
    /\ pc = [u \in Units |-> "idle"]
    /\ op = [u \in Units |-> NoOp]
    /\ loc = [u \in Units |-> NoLoc]
    /\ tx = [u \in Units |-> NoTx]
    /\ err = [u \in Units |-> NoErr]
    /\ rbErr = [u \in Units |-> NoErr]
    /\ conn = [u \in Units |-> 0]
    /\ pool = {}
    /\ log = [u \in Units |-> <<>>]
    /\ ended = NoCall
    /\ base = [u \in Units |-> NoDb]
    /\ alone = [u \in Units |-> TRUE]
    /\ calls = 0
    /\ faults = 0
    /\ batch = NoBatch

\* every operation of the order service, on two products: a batch, or the
\* other services called one after the other
FrameNext ==
    \/ batchProcessOrders
    \/ batchCollect
    \/ batchReturn
    \/ \E u \in Units :
        \/ batchItem(u)
        \/ batch.pc # "loop" /\ Idle /\ processCompleteOrder(u)
        \/ batch.pc # "loop" /\ Idle /\ processOrderWithExistingClient(u)
        \/ batch.pc # "loop" /\ Idle /\ cancelOrderAndRestoreInventory(u)
        \/ batch.pc # "loop" /\ Idle /\ getOrderSummary(u)
        \/ Begin(u)
        \/ Commit(u)
        \/ Rollback(u)
        \/ Finish(u)
        \/ getClientByEmail(u)
        \/ createClient(u)
        \/ getClientById(u)
        \/ getProductByName(u)
        \/ checkStock(u)
        \/ createOrder(u)
        \/ updateStockSelect(u)
        \/ updateStockUpdate(u)
        \/ getOrderById(u)
        \/ cancelOrderSelect(u)
        \/ cancelOrderDelete(u)
        \/ restoreStock(u)
        \/ getOrderStatistics(u)
        \/ getAllOrders(u)
        \/ getLowStockProducts(u)

FrameSpec == FrameInit /\ [][FrameNext]_vars

\* n orders of one unit of the second product, placed by the first customer
History(n) ==
    {[id |-> i, cliente_id |-> 1, producto_id |-> 2, cantidad |-> 1,
      precio_unitario |-> inventoryItems[2].precio,
      total |-> Total(1, inventoryItems[2].precio),
      estado |-> "pendiente"] : i \in 1..n}

\* the store after a customer has placed about as many orders as the
\* summary shows
SummaryInit ==
    /\ clientes = {[id |-> 1, nombre |-> "Bea", email |-> "b@x.cl"]}
    /\ inventario = [p \in 1..Len(inventoryItems) |->
                        [id |-> p, producto |-> inventoryItems[p].producto,
                         precio |-> inventoryItems[p].precio,
                         stock |-> IF p = 1 THEN InitStock
                                   ELSE DefaultStockMinimo + 1,
                         stock_minimo |-> DefaultStockMinimo]]
    /\ \E n \in (RecentLimit - 1)..(RecentLimit + 1) :
        /\ pedidos = History(n)
        /\ seq = [cli |-> 1, ped |-> n]
    /\ pc = [u \in Units |-> "idle"]
    /\ op = [u \in Units |-> NoOp]
    /\ loc = [u \in Units |-> NoLoc]
    /\ tx = [u \in Units |-> NoTx]
    /\ err = [u \in Units |-> NoErr]
    /\ rbErr = [u \in Units |-> NoErr]
    /\ conn = [u \in Units |-> 0]
    /\ pool = {}
    /\ log = [u \in Units |-> <<>>]
    /\ ended = NoCall
    /\ base = [u \in Units |-> NoDb]
    /\ alone = [u \in Units |-> TRUE]
    /\ calls = 0
    /\ faults = 0
    /\ batch = NoBatch

\* summaries requested while orders are placed, one order at a time
SummaryNext ==
    \E u \in Units :
        \/ getOrderSummary(u)
        \/ Idle /\ processCompleteOrder(u)
        \/ Begin(u)
        \/ Commit(u)
        \/ Rollback(u)
        \/ Finish(u)
        \/ getClientByEmail(u)
        \/ createClient(u)
        \/ getProductByName(u)
        \/ checkStock(u)
        \/ createOrder(u)
        \/ updateStockSelect(u)
        \/ updateStockUpdate(u)
        \/ getOrderStatistics(u)
        \/ getAllOrders(u)
        \/ getLowStockProducts(u)

SummarySpec == SummaryInit /\ [][SummaryNext]_vars

\* one executeSequentialTransactions call
SequenceNext ==
    \/ executeSequentialTransactions
    \/ sequenceCollect
    \/ sequenceReturn
    \/ \E u \in Units :
        \/ sequenceItem(u)
        \/ Begin(u)
        \/ Commit(u)
        \/ Rollback(u)
        \/ Finish(u)
        \/ getClientByEmail(u)
        \/ createClient(u)
        \/ getClientById(u)
        \/ getProductByName(u)
        \/ checkStock(u)
        \/ createOrder(u)
        \/ updateStockSelect(u)
        \/ updateStockUpdate(u)

SequenceSpec == Init /\ [][SequenceNext]_vars

\* the store the script is run on: as seeded, or after a test run that
\* left a test customer and orders behind
CleanInit ==
    /\ \E used \in BOOLEAN :
        /\ clientes = IF used
                      THEN {[id |-> 1, nombre |-> "Ana", email |-> "a@x.cl"],
                            [id |-> 2, nombre |-> "Bea",
                             email |-> "test@x.cl"]}
                      ELSE {}
        /\ pedidos = IF used
                     THEN {[id |-> c, cliente_id |-> c, producto_id |-> 1,
                            cantidad |-> 1,
                            precio_unitario |-> inventoryItems[1].precio,
                            total |-> Total(1, inventoryItems[1].precio),
                            estado |-> "pendiente"] : c \in 1..2}
                     ELSE {}
        /\ seq = IF used THEN [cli |-> 2, ped |-> 2]
                 ELSE [cli |-> 0, ped |-> 0]
        /\ inventario = [p \in 1..Len(inventoryItems) |->
                            [id |-> p,
                             producto |-> inventoryItems[p].producto,
                             precio |-> inventoryItems[p].precio,
                             stock |-> IF p = 1 /\ used THEN 8
                                       ELSE IF p = 1 THEN 10 ELSE 50,
                             stock_minimo |-> DefaultStockMinimo]]
    /\ pc = [u \in Units |-> "idle"]
    /\ op = [u \in Units |-> NoOp]
    /\ loc = [u \in Units |-> NoLoc]
    /\ tx = [u \in Units |-> NoTx]
    /\ err = [u \in Units |-> NoErr]
    /\ rbErr = [u \in Units |-> NoErr]
    /\ conn = [u \in Units |-> 0]
    /\ pool = {}
    /\ log = [u \in Units |-> <<>>]
    /\ ended = NoCall
    /\ base = [u \in Units |-> NoDb]
    /\ alone = [u \in Units |-> TRUE]
    /\ calls = 0
    /\ faults = 0
    /\ batch = NoBatch

\* the script cleans the database, once or again
CleanNext ==
    \E u \in Units :
        \/ cleanDatabase(u)
        \/ cleanBegin(u)
        \/ cleanStatement(u)
        \/ cleanCommit(u)
        \/ cleanRollback(u)
        \/ cleanEnd(u)

CleanSpec == CleanInit /\ [][CleanNext]_vars

TypeOK == faults <= MaxFaults /\ calls <= MaxCalls

----------------------------------------------------------------------------
(* Properties.  ended describes the service call that settled in the step  *)
(* just taken: its arguments, what its caller got, the statements issued   *)
(* on its connection, and base, the committed tables as they are without   *)
(* any write of this call.                                                 *)

PCO == "processCompleteOrder"
Cancel == "cancelOrderAndRestoreInventory"

Stmts(c) == {c.log[i] : i \in DOMAIN c.log}
Issued(c, stmt) == \E e \in Stmts(c) : e.stmt = stmt
Succeeded(c, stmt) == \E e \in Stmts(c) : e.stmt = stmt /\ e.ok
Last(q) == q[Len(q)]

\* the unit of work of the ended call ran and returned a value
UnitReturned(c) == c.kind # "none" /\ c.loc.result # NoRow
\* the unit of work of the ended call ran and threw
UnitFailed(c) ==
    /\ c.kind # "none"
    /\ Succeeded(c, "BEGIN")
    /\ c.loc.result = NoRow

\* C1: a processCompleteOrder call that raises leaves the committed
\* clientes, pedidos and inventario tables as they are without it; a
\* customer row it inserted does not persist
C1_Atomicity ==
    (ended.kind = "raised" /\ ended.op.kind = PCO) =>
        /\ Db = ended.base
        /\ ended.loc.createdClient \in clientes =>
              ended.loc.createdClient = ended.loc.existingClient

\* a call that inserted a customer row and then failed
C1_Witness ==
    /\ ended.kind = "raised"
    /\ ended.op.kind = PCO
    /\ ended.err = SimulatedFailure
    /\ ended.loc.createdClient # NoRow
    /\ ended.loc.existingClient = NoRow
    /\ Issued(ended, "INSERT")

\* C2: a processCompleteOrder call that succeeds with no other unit of work
\* overlapping it commits exactly one new order row, for the resolved
\* customer and product with the requested quantity, and lowers the
\* committed stock of that product by the quantity; the summary has
\* stock_nuevo = stock_anterior - cantidad_pedida
C2_SuccessfulOrder ==
    (ended.kind = "returned" /\ ended.op.kind = PCO /\ ended.alone) =>
        LET r == ended.val
            p == r.producto.id IN
        /\ pedidos = ended.base.pedidos \cup {r.pedido}
        /\ r.pedido \notin ended.base.pedidos
        /\ r.pedido.cliente_id = r.cliente.id
        /\ r.cliente \in clientes
        /\ r.cliente.email = ended.op.email
        /\ inventario[p].producto = ended.op.producto
        /\ r.pedido.producto_id = p
        /\ r.pedido.cantidad = ended.op.cantidad
        /\ inventario[p].stock =
              ended.base.inventario[p].stock - ended.op.cantidad
        /\ r.resumen.stock_nuevo =
              r.resumen.stock_anterior - r.resumen.cantidad_pedida
        /\ r.resumen.stock_nuevo = inventario[p].stock

C2_Witness ==
    /\ ended.kind = "returned"
    /\ ended.op.kind = PCO
    /\ ended.alone
    /\ ended.op.cantidad = MaxQty
    /\ ended.val.resumen.stock_nuevo = InitStock - MaxQty

\* C3 as stated: when the unit of work returns without failure,
\* executeTransaction issues COMMIT on the same connection after the unit's
\* last statement, issues no ROLLBACK and returns the unit's value
C3_Original ==
    UnitReturned(ended) =>
        /\ Issued(ended, "COMMIT")
        /\ ~Issued(ended, "ROLLBACK")
        /\ ended.kind = "returned"
        /\ ended.val = ended.loc.result

\* C3, amended: when the unit of work returns without failure,
\* executeTransaction issues COMMIT once, on the connection of BEGIN and of
\* the unit's statements, right after the unit's last statement; when that
\* COMMIT succeeds it issues no ROLLBACK and returns exactly the unit's value
C3_CommitOnSuccess ==
    UnitReturned(ended) =>
        /\ \E i \in DOMAIN ended.log :
            /\ ended.log[i].stmt = "COMMIT"
            /\ \A j \in DOMAIN ended.log :
                /\ ended.log[j].conn = ended.conn
                /\ j < i => ended.log[j].stmt \notin {"COMMIT", "ROLLBACK"}
                /\ j < i => ended.log[j].ok
                /\ j > i => ended.log[j].stmt = "ROLLBACK"
        /\ Succeeded(ended, "COMMIT") =>
            /\ ~Issued(ended, "ROLLBACK")
            /\ Last(ended.log).stmt = "COMMIT"
            /\ ended.kind = "returned"
            /\ ended.val = ended.loc.result

C3_Witness ==
    /\ UnitReturned(ended)
    /\ Succeeded(ended, "COMMIT")
    /\ ended.kind = "returned"
    /\ ended.op.kind = PCO

\* C4: when the unit of work fails with error E, executeTransaction issues
\* ROLLBACK on the connection and then raises that same error E
C4_RollbackAndReraise ==
    UnitFailed(ended) =>
        /\ Last(ended.log).stmt = "ROLLBACK"
        /\ Last(ended.log).conn = ended.conn
        /\ ~Issued(ended, "COMMIT")
        /\ ended.kind = "raised"
        /\ ended.caught # NoErr
        /\ ended.err = ended.caught

\* a business-rule failure and a failing statement are both reached
C4_Witness ==
    /\ UnitFailed(ended)
    /\ ended.err = WrapError("Error actualizando stock",
                             DbError("UPDATE", "08006"))
    /\ Succeeded(ended, "ROLLBACK")

\* C5: when the unit of work fails with E and ROLLBACK fails as well,
\* executeTransaction still raises E; the rollback error is not raised
C5_RollbackFailureNotRaised ==
    (UnitFailed(ended) /\ ended.rbErr # NoErr) =>
        /\ ended.kind = "raised"
        /\ ended.err = ended.caught
        /\ ended.err # ended.rbErr

C5_Witness ==
    /\ UnitFailed(ended)
    /\ ended.caught = Error("Producto no encontrado")
    /\ ended.rbErr = DbError("ROLLBACK", "08006")
    /\ Issued(ended, "ROLLBACK")
    /\ ~Succeeded(ended, "ROLLBACK")

\* C6: a connection acquired by executeTransaction is released exactly once
\* on every exit path, and none is left checked out by a call that ended
C6_ReleasedOnce ==
    /\ pool = {conn[u] : u \in {v \in Units : pc[v] # "idle"}}
    /\ \A u, v \in Units : (pc[u] # "idle" /\ pc[v] # "idle" /\ u # v) =>
            conn[u] # conn[v]
    /\ ended.kind # "none" =>
        /\ ended.released = IF ended.conn # 0 THEN 1 ELSE 0
        /\ ended.conn \notin pool

\* the exit path through a failed COMMIT and the ROLLBACK that follows it
C6_Witness ==
    /\ ended.kind = "raised"
    /\ ended.conn # 0
    /\ ended.released = 1
    /\ ended.caught = DbError("COMMIT", "08006")
    /\ pool = {}

\* C7: in every committed state, under any interleaving of the three
\* services, every product has stock >= 0, and no open transaction holds a
\* negative stock to commit
C7_StockNonNegative ==
    /\ \A p \in ProductIds : inventario[p].stock >= 0
    /\ \A u \in Units : \A p \in tx[u].upd : tx[u].stk[p] >= 0

\* two overlapping orders on one product: the first committed and emptied
\* the stock after the second had passed checkStock, and updateStock of the
\* second refused the decrement
C7_Witness ==
    \E u \in Units :
        /\ pc[u] = "rollback"
        /\ err[u] = WrapError("Error actualizando stock",
                              Error("Stock insuficiente"))
        /\ inventario[loc[u].foundProduct.id].stock = 0
        /\ pedidos # {}

\* the lookup of createClient found the email under another name, or the
\* call ran alone from tables that hold the email under another name
ConflictingCall(c) ==
    /\ c.kind # "none"
    /\ c.op.kind = PCO
    /\ \/ /\ c.loc.existingClient # NoRow
          /\ c.loc.existingClient.nombre # c.op.nombre
       \/ /\ c.alone
          /\ \E r \in c.base.clientes :
                r.email = c.op.email /\ r.nombre # c.op.nombre

\* C8: a processCompleteOrder call whose email is registered under a
\* different name raises the identity-conflict error, inserts or changes no
\* customer row, creates no order and leaves every stock unchanged
C8_IdentityConflict ==
    ConflictingCall(ended) =>
        /\ ended.kind = "raised"
        /\ ended.err = EmailConflict
        /\ clientes = ended.base.clientes
        /\ pedidos = ended.base.pedidos
        /\ inventario = ended.base.inventario
        /\ \A e \in Stmts(ended) :
                e.stmt \notin {"INSERT", "UPDATE", "DELETE", "COMMIT"}

C8_Witness ==
    /\ ConflictingCall(ended)
    /\ ended.loc.existingClient \in clientes
    /\ ended.err = EmailConflict
    /\ Succeeded(ended, "ROLLBACK")

\* the lookup of createClient found the email under the submitted name, or
\* the call ran alone from tables that hold the email under that name
ReusingCall(c) ==
    /\ c.kind # "none"
    /\ c.op.kind = PCO
    /\ \/ /\ c.loc.existingClient # NoRow
          /\ c.loc.existingClient.nombre = c.op.nombre
       \/ /\ c.alone
          /\ \E r \in c.base.clientes :
                r.email = c.op.email /\ r.nombre = c.op.nombre

\* C9: a processCompleteOrder call that submits the name and email of an
\* earlier call resolves to the customer id of that call, is not rejected
\* as a conflict, and leaves exactly one customer row with that email
C9_IdempotentReuse ==
    ReusingCall(ended) =>
        /\ ended.err # EmailConflict
        /\ ended.loc.existingClient \in ended.base.clientes
        /\ ended.loc.createdClient = ended.loc.existingClient
        /\ ended.kind = "returned" =>
                /\ ended.val.cliente = ended.loc.existingClient
                /\ ended.val.pedido.cliente_id = ended.loc.existingClient.id
        /\ clientes = ended.base.clientes
        /\ Cardinality({c \in clientes : c.email = ended.op.email}) = 1

C9_Witness ==
    /\ ReusingCall(ended)
    /\ ended.kind = "returned"
    /\ ended.val.cliente.id = 1
    /\ calls = 2

\* an order of q units and then the cancellation of that order, each alone
\* and nothing else before: updateStock(p, q), then restoreStock(p, q)
RoundTrip(c) ==
    /\ c.kind = "returned"
    /\ c.op.kind = Cancel
    /\ c.alone
    /\ calls = 2

\* C10: updateStock(p, q) with 0 < q <= stock(p) followed by
\* restoreStock(p, q), with no other writer, leaves stock(p) as it was
\* before the decrement
C10_RoundTrip ==
    RoundTrip(ended) =>
        LET o == ended.val.order
            p == ended.val.order.producto_id IN
        /\ 0 < o.cantidad /\ o.cantidad <= InitStock
        /\ ended.base.inventario[p].stock = InitStock - o.cantidad
        /\ inventario[p].stock = InitStock
        /\ ended.val.producto.stock = InitStock

C10_Witness ==
    /\ RoundTrip(ended)
    /\ ended.val.order.cantidad = MaxQty
    /\ inventario[ended.val.order.producto_id].stock = InitStock

\* the service's own insufficient-stock error (step 3 of the order services)
InsufficientStock == Error("Stock insuficiente")

\* the call asked for more than the stock it could see: it ran alone from
\* tables holding less than the quantity, or checkStock answered false
ShortOfStock(c) ==
    /\ c.kind # "none"
    /\ c.op.kind = PCO
    /\ \/ /\ c.alone
          /\ c.loc.foundProduct # NoRow
          /\ c.op.cantidad >
                c.base.inventario[c.loc.foundProduct.id].stock
       \/ c.err = InsufficientStock

\* C11: a processCompleteOrder call whose quantity exceeds the current stock
\* of the product raises the insufficient-stock error of the validation
\* step, before any order row is inserted or any stock updated; no order row
\* is created and the stock is unchanged
C11_InsufficientStock ==
    ShortOfStock(ended) =>
        /\ ended.kind = "raised"
        /\ ended.err = InsufficientStock
        /\ ended.loc.createdOrder = NoRow
        /\ ~Issued(ended, "UPDATE")
        /\ Last(ended.log).stmt = "ROLLBACK"
        /\ ended.log[Len(ended.log) - 1].stmt = "SELECT"
        /\ pedidos = ended.base.pedidos
        /\ inventario = ended.base.inventario

\* the second order asks for more than the first one left
C11_Witness ==
    /\ ShortOfStock(ended)
    /\ ended.alone
    /\ ended.op.cantidad = MaxQty
    /\ ended.base.inventario[ended.loc.foundProduct.id].stock
            = InitStock - 1
    /\ ended.base.pedidos # {}

\* the ended processCompleteOrder call read simulateError = true
Simulated(c) == c.kind # "none" /\ c.op.kind = PCO /\ c.op.simulateError

Inserts(c) == {i \in DOMAIN c.log : c.log[i].stmt = "INSERT"}

\* C12 as stated: the synthetic failure is raised after product and stock
\* validation and before any INSERT or UPDATE statement was issued on the
\* connection since BEGIN
C12_Original ==
    Simulated(ended) =>
        /\ ended.err = SimulatedFailure
        /\ ended.loc.foundProduct # NoRow
        /\ ~Issued(ended, "INSERT")
        /\ ~Issued(ended, "UPDATE")

\* C12, amended: the synthetic failure is raised right after the stock
\* check, with the product found and the stock sufficient, before any order
\* row is inserted or any stock updated; the only write issued before it is
\* the INSERT of the customer row of step 1, when the customer is new
C12_SimulatedBeforeOrder ==
    Simulated(ended) =>
        /\ ended.kind = "raised"
        /\ ended.err = SimulatedFailure
        /\ ended.loc.foundProduct # NoRow
        /\ ended.alone =>
              ended.op.cantidad <=
                ended.base.inventario[ended.loc.foundProduct.id].stock
        /\ ended.loc.createdOrder = NoRow
        /\ ~Issued(ended, "UPDATE")
        /\ Last(ended.log).stmt = "ROLLBACK"
        /\ ended.log[Len(ended.log) - 1].stmt = "SELECT"
        /\ Cardinality(Inserts(ended)) =
              IF ended.loc.existingClient = NoRow THEN 1 ELSE 0
        /\ \A i \in Inserts(ended) : i = 3
        /\ Db = ended.base

\* the simulated failure of a call that reuses its customer: no write at
\* all was issued
C12_Witness ==
    /\ Simulated(ended)
    /\ ended.loc.existingClient # NoRow
    /\ ended.err = SimulatedFailure
    /\ ~Issued(ended, "INSERT")

\* the ended call is a processCompleteOrder given a list of product/quantity
\* pairs, run with no other unit of work overlapping it and without any
\* failure of the connection or of a statement
ListOrder(c) ==
    /\ c.kind # "none"
    /\ c.op.kind = PCO
    /\ c.op.body.productos # <<>>
    /\ c.alone
    /\ c.conn # 0
    /\ \A e \in Stmts(c) : e.ok

\* the units of the product named n that the list l asks for
RECURSIVE Requested(_, _)
Requested(l, n) ==
    IF l = <<>> THEN 0
    ELSE (IF Head(l).producto = n THEN Head(l).cantidad ELSE 0)
         + Requested(Tail(l), n)

\* every pair of l names a product of inv that has the units l asks of it
AllInStock(l, inv) ==
    \A i \in DOMAIN l :
        \E p \in ProductIds :
            /\ inv[p].producto = l[i].producto
            /\ Requested(l, l[i].producto) <= inv[p].stock

\* C13 as stated: given a list of pairs, when one of them lacks stock the
\* order is rejected before any write, no order row is created and no stock
\* changes; when all have stock, one order row per pair is committed
C13_Original ==
    ListOrder(ended) =>
        IF AllInStock(ended.op.body.productos, ended.base.inventario)
        THEN /\ ended.kind = "returned"
             /\ Cardinality(pedidos \ ended.base.pedidos)
                    = Len(ended.op.body.productos)
        ELSE /\ ended.kind = "raised"
             /\ pedidos = ended.base.pedidos
             /\ inventario = ended.base.inventario

\* the request body lacks the product, the quantity, or the name or email of
\* the customer
Malformed(body) ==
    \/ body.cliente # "ok"
    \/ body.productos = <<>> /\ ~(body.producto /\ body.cantidad)

RECURSIVE Ordered(_, _)
Ordered(results, p) ==
    IF results = <<>> THEN 0
    ELSE (IF Head(results).data.pedido.producto_id = p
          THEN Head(results).data.pedido.cantidad ELSE 0)
         + Ordered(Tail(results), p)

Quiet == ended.kind = "none" /\ \A u \in Units : pc[u] = "idle"

\* C15: every item of a batch runs in its own transaction: what the earlier
\* items committed (customer, order row, stock decrement) stays committed
\* whatever happens to the later ones, and an item that fails leaves the
\* tables exactly as they were before it
C15_BatchIsolation ==
    /\ \A k \in DOMAIN batch.results :
        LET d == batch.results[k].data IN
        /\ d # NoRow
        /\ d.pedido \in pedidos
        /\ d.cliente \in clientes
    /\ (batch.pc = "loop" /\ ended.kind = "raised") => Db = ended.base
    /\ (batch.pc # "idle" /\ Quiet) =>
        /\ Cardinality(pedidos) = Len(batch.results)
        /\ \A p \in ProductIds :
              inventario[p].stock = InitStock - Ordered(batch.results, p)

\* item 0 committed, item 1 inserted its customer and failed, item 2
\* committed
C15_Witness ==
    /\ batch.pc = "done"
    /\ batch.length = 3
    /\ Len(batch.results) = 2
    /\ Len(batch.errors) = 1
    /\ batch.errors[1].index = 1
    /\ batch.errors[1].error = SimulatedFailure.msg
    /\ Cardinality(pedidos) = 2
    /\ inventario[1].stock = InitStock - 2

\* C16: the batch reports total = the input length, successful = the number
\* of committed items and failed = the number of items that raised; the
\* items are attempted in input order; with stopOnError no item after the
\* first failing one is attempted (failed <= 1), without it every item is
\* attempted and successful + failed = total
C16_BatchCounts ==
    batch.pc = "done" =>
        LET r == batch.return
            n == Len(batch.attempted) IN
        /\ r.total = batch.length
        /\ \A j \in 1..n : batch.attempted[j] = j - 1
        /\ r.successful + r.failed = n
        /\ r.successful = Cardinality(pedidos)
        /\ r.failed = Len(r.errors)
        /\ \A k \in DOMAIN r.errors : r.errors[k].error # <<>>
        /\ batch.stopOnError =>
              /\ r.failed <= 1
              /\ r.failed = 1 => r.errors[1].index = n - 1
              /\ r.failed = 0 => n = r.total
        /\ ~batch.stopOnError => n = r.total

\* a batch of three stopped by the failure of its second item
C16_Witness ==
    /\ batch.pc = "done"
    /\ batch.stopOnError
    /\ batch.return.total = 3
    /\ batch.return.successful = 1
    /\ batch.return.failed = 1
    /\ batch.attempted = <<0, 1>>

CancelMissing(c) ==
    /\ c.kind # "none"
    /\ c.op.kind = Cancel
    /\ c.alone
    /\ c.op.orderId # 0
    /\ ~ \E r \in c.base.pedidos : r.id = c.op.orderId

\* C18: cancelOrderAndRestoreInventory of an order id without a row raises
\* "Pedido no encontrado" after its first SELECT and changes nothing; so
\* does a second cancel after a successful one, and the stock is not
\* restored again
C18_CancelMissing ==
    CancelMissing(ended) =>
        /\ ended.kind = "raised"
        /\ ended.err = Error("Pedido no encontrado")
        /\ ~Issued(ended, "DELETE")
        /\ ~Issued(ended, "UPDATE")
        /\ ~Issued(ended, "COMMIT")
        /\ Db = ended.base

\* order 1 was placed and cancelled, and is cancelled again: the stock stays
\* at its initial value
C18_Witness ==
    /\ CancelMissing(ended)
    /\ ended.kind = "raised"
    /\ calls = 3
    /\ faults = 0
    /\ seq.ped = 1
    /\ ended.op.orderId = 1
    /\ clientes # {}
    /\ pedidos = {}
    /\ inventario[1].stock = InitStock

Running(u) == pc[u] # "idle"

\* who holds what: a running unit of work holds one connection of the pool,
\* no two units hold the same one, none holds a connection of another
\* request, every statement of a unit ran on its connection
Exclusive ==
    /\ \A u \in Units :
        /\ Running(u) <=> conn[u] # 0
        /\ Running(u) =>
            /\ conn[u] \in pool
            /\ conn[u] \in 1..PoolMax
            /\ conn[u] \notin Busy
            /\ \A i \in DOMAIN log[u] : log[u][i].conn = conn[u]
        /\ \A v \in Units \ {u} : Running(u) => conn[u] # conn[v]
    /\ pool \subseteq 1..PoolMax
    /\ Cardinality(pool) <= PoolMax

\* how a connection changes hands: a unit is given one that nobody holds,
\* keeps it until it ends, and only then is it back in the pool
Handover ==
    \A u \in Units :
        /\ (conn[u] = 0 /\ conn'[u] # 0) =>
            /\ conn'[u] \notin pool
            /\ pool' = pool \cup {conn'[u]}
        /\ (conn[u] # 0 /\ conn'[u] # 0) =>
            /\ conn'[u] = conn[u]
            /\ conn[u] \in pool'
        /\ (conn[u] # 0 /\ conn'[u] = 0) => pool' = pool \ {conn[u]}

\* C19: at every moment each connection of the pool is held by at most one
\* unit of work, each running unit of work holds exactly one connection,
\* and at most PoolMax (20) connections are held
C19_ConnectionExclusive == []Exclusive /\ [][Handover]_vars

\* both units run, each on its own connection, and the pool is used up
C19_Witness ==
    /\ \A u \in Units : Running(u)
    /\ conn[1] # conn[2]
    /\ {conn[1], conn[2]} \cap Busy = {}
    /\ Cardinality(pool) = PoolMax

\* the call failed to get a connection
AcquireFailed(c) == c.kind = "raised" /\ c.conn = 0

\* C20: when the connection cannot be acquired executeTransaction raises
\* the error of the pool as it is, the unit of work is not invoked, no
\* BEGIN, ROLLBACK or any other statement is issued, release is not called
\* and no table changes
C20_AcquireFailure ==
    AcquireFailed(ended) =>
        /\ ended.caught = DbError("connect", "ETIMEDOUT")
        /\ ended.err = ended.caught
        /\ ended.log = <<>>
        /\ ended.loc = NoLoc
        /\ ended.released = 0
        /\ Db = ended.base
        /\ pc[ended.unit] = "idle"
        /\ conn[ended.unit] = 0

\* the pool is exhausted: all its connections are checked out, no fault of
\* the network is involved
C20_Witness ==
    /\ AcquireFailed(ended)
    /\ faults = 0
    /\ Cardinality(pool) = PoolMax
    /\ \E u \in Units : Running(u)

\* how many statements stmt the log l holds
Count(l, stmt) == Cardinality({i \in DOMAIN l : l[i].stmt = stmt})

\* the log of one invocation shows one attempt: one connection, BEGIN once
\* and first, every statement of the unit at most once, and nothing but
\* ROLLBACK after a statement that failed or after the end of the
\* transaction
OneAttempt(l) ==
    /\ Count(l, "BEGIN") <= 1
    /\ \A i \in DOMAIN l : l[i].stmt = "BEGIN" => i = 1
    /\ Count(l, "COMMIT") <= 1
    /\ Count(l, "ROLLBACK") <= 1
    /\ Count(l, "INSERT") <= 2
    /\ Count(l, "UPDATE") <= 1
    /\ Count(l, "SELECT") <= 4
    /\ \A i, j \in DOMAIN l : l[i].conn = l[j].conn
    /\ \A i \in DOMAIN l :
        (~l[i].ok \/ l[i].stmt \in {"COMMIT", "ROLLBACK"}) =>
            \/ i = Len(l)
            \/ i = Len(l) - 1 /\ l[i].stmt # "ROLLBACK"
                              /\ l[Len(l)].stmt = "ROLLBACK"

\* C21: an invocation of processCompleteOrder acquires at most one
\* connection, issues at most one BEGIN and runs its unit of work at most
\* once; after a failure it raises the error and the unit is not executed
\* again
C21_NoRetry ==
    /\ \A u \in Units : op[u].kind = PCO => OneAttempt(log[u])
    /\ (ended.kind # "none" /\ ended.op.kind = PCO) =>
        /\ OneAttempt(ended.log)
        /\ \A e \in Stmts(ended) : e.conn = ended.conn
        /\ (\E e \in Stmts(ended) : ~e.ok) => ended.kind = "raised"
        /\ ended.kind = "raised" =>
            /\ ended.err # NoErr
            /\ ~Succeeded(ended, "COMMIT")
            /\ ended.log # <<>> => Last(ended.log).stmt = "ROLLBACK"

\* the order insert of a call failed in the store: the call raised after
\* BEGIN, the statements up to the insert and ROLLBACK, all issued once
C21_Witness ==
    /\ ended.kind = "raised"
    /\ ended.op.kind = PCO
    /\ Len(ended.log) >= 6
    /\ ~ended.log[Len(ended.log) - 1].ok
    /\ ended.log[Len(ended.log) - 1].stmt = "INSERT"
    /\ Count(ended.log, "BEGIN") = 1
    /\ Last(ended.log).stmt = "ROLLBACK"

\* the units of product p that the order rows of set S hold
RECURSIVE Units_Ordered(_, _)
Units_Ordered(S, p) ==
    IF S = {} THEN 0
    ELSE LET r == CHOOSE r \in S : TRUE IN
         (IF r.producto_id = p THEN r.cantidad ELSE 0)
         + Units_Ordered(S \ {r}, p)

OrderKinds == {PCO, "processOrderWithExistingClient"}

\* the COMMIT of an order leaves in the table the stock that its updateStock
\* computed from its own read, whatever another order committed since
LastWriteWins ==
    \A u \in Units :
        (op[u].kind \in OrderKinds /\ pc[u] = "commit" /\ pc'[u] = "finish")
            => LET p == loc[u].foundProduct.id IN
               /\ inventario'[p].stock = loc[u].newStock
               /\ loc[u].updatedProduct.stock = loc[u].newStock
               /\ pedidos' = pedidos \cup {loc[u].createdOrder}

\* C22: updateStock writes the absolute value it computed from its own
\* earlier read, so the later of two overlapping orders on one product
\* overwrites the decrement of the earlier one: both pass checkStock and
\* both commit although their quantities add up to more than the stock
\* there was before either ran (the interleaving is C22_Witness)
C22_ReadModifyWrite == [][LastWriteWins]_vars

\* every call so far placed an order and its row is committed, the last
\* two overlapped: the order rows hold more units than the stock has lost
C22_Witness ==
    /\ ended.kind = "returned"
    /\ ended.op.kind = PCO
    /\ ~ended.alone
    /\ calls = 3
    /\ Cardinality(pedidos) = calls
    /\ inventario[1].stock >= 0
    /\ Units_Ordered(pedidos, 1) > InitStock - inventario[1].stock
    /\ Units_Ordered(pedidos, 1) > InitStock

\* C23: when the calls of processCompleteOrder,
\* processOrderWithExistingClient and cancelOrderAndRestoreInventory do not
\* overlap, then whether they commit or roll back, for every product the
\* committed stock plus the quantities of the order rows that exist for it
\* equals the initial stock
C23_StockConservation ==
    \A p \in ProductIds :
        inventario[p].stock + Units_Ordered(pedidos, p) = InitStock

\* two orders were placed, one by a known customer, and one of them
\* cancelled
C23_Witness ==
    /\ ended.kind = "returned"
    /\ ended.op.kind = Cancel
    /\ calls = 3
    /\ seq.ped = 2
    /\ Cardinality(pedidos) = 1
    /\ Cardinality(clientes) = 1
    /\ inventario[1].stock < InitStock

\* C24 as stated: however two concurrent cancelOrderAndRestoreInventory
\* calls for the same order interleave, the order's quantity is added back
\* to the stock at most once. With a single order ever inserted the cancels
\* are the only other writers of the stock, so the stock and the units of the
\* order rows never add up to more than the initial stock
C24_Original ==
    seq.ped <= 1 =>
        \A p \in ProductIds :
            inventario[p].stock + Units_Ordered(pedidos, p) <= InitStock

UniqueViolation ==
    WrapError("Error creando cliente", DbError("INSERT", "23505"))

\* C25: however concurrent processCompleteOrder calls interleave, also when
\* two of them submit the same unknown email at the same time, no two
\* committed customer rows share an email (nor an id), and neither do the
\* rows a transaction sees
C25_EmailUnique ==
    /\ \A r1, r2 \in clientes :
        (r1.email = r2.email \/ r1.id = r2.id) => r1 = r2
    /\ \A u \in Units : \A r1, r2 \in VisClientes(u) :
        r1.email = r2.email => r1 = r2

\* two overlapping calls found the email unknown and both inserted it: the
\* INSERT of the second waited for the COMMIT of the first and then failed
\* on the constraint
C25_Witness ==
    /\ ended.kind = "raised"
    /\ ended.op.kind = PCO
    /\ ~ended.alone
    /\ ended.err = UniqueViolation
    /\ \E r \in clientes : r.email = ended.op.email
    /\ Cardinality(clientes) = 1

\* the statements of a log, without a closing ROLLBACK
Kinds(l) ==
    LET k == [i \in DOMAIN l |-> l[i].stmt] IN
    IF k # <<>> /\ k[Len(k)] = "ROLLBACK" THEN SubSeq(k, 1, Len(k) - 1)
    ELSE k

IsPrefix(a, b) == Len(a) <= Len(b) /\ \A i \in DOMAIN a : a[i] = b[i]

\* the statements of processCompleteOrder for a new customer: lookup by
\* email, customer insert, product lookup, stock check, order insert, the
\* read and the write of updateStock
NewCustomerOrder ==
    <<"BEGIN", "SELECT", "INSERT", "SELECT", "SELECT", "INSERT", "SELECT",
      "UPDATE", "COMMIT">>

\* the same for a customer that exists: no customer insert
KnownCustomerOrder ==
    <<"BEGIN", "SELECT", "SELECT", "SELECT", "INSERT", "SELECT", "UPDATE",
      "COMMIT">>

InOrder(l) ==
    \/ IsPrefix(Kinds(l), NewCustomerOrder)
    \/ IsPrefix(Kinds(l), KnownCustomerOrder)

\* each step has the results of the steps before it
StepsBehind(l, w, position) ==
    /\ l.foundProduct # NoRow => l.createdClient # NoRow
    /\ l.createdOrder # NoRow => l.foundProduct # NoRow
    /\ l.updatedProduct # NoRow => l.createdOrder # NoRow
    /\ position \in {"getProductByName", "checkStock"} =>
          l.createdClient # NoRow
    /\ position = "checkStock" => l.foundProduct # NoRow
    /\ position \in {"getClientByEmail", "createClient", "getProductByName",
                     "checkStock", "createOrder"} =>
          w.ped = {} /\ w.upd = {}
    /\ position \in {"updateStockSelect", "updateStockUpdate"} =>
          l.createdOrder \in w.ped /\ w.upd = {}

\* C26: the steps of one processCompleteOrder run one after another in the
\* order resolve customer, look up product, check stock, (simulated
\* failure), insert order row, decrement stock: the statements appear in
\* that order in the log, each step finds the results of the earlier ones,
\* and the order row is inserted before the stock is written
C26_StepOrder ==
    /\ \A u \in Units : op[u].kind = PCO =>
        /\ InOrder(log[u])
        /\ StepsBehind(loc[u], tx[u], pc[u])
    /\ (ended.kind # "none" /\ ended.op.kind = PCO) =>
        /\ InOrder(ended.log)
        /\ ended.kind = "returned" =>
              Kinds(ended.log) \in {NewCustomerOrder, KnownCustomerOrder}
        /\ ended.op.simulateError =>
              Len(Kinds(ended.log)) <= 5 /\ ended.loc.createdOrder = NoRow

\* an order of a new customer went through all the steps
C26_Witness ==
    /\ ended.kind = "returned"
    /\ ended.op.kind = PCO
    /\ Kinds(ended.log) = NewCustomerOrder
    /\ \A e \in Stmts(ended) : e.ok

\* the statements of log l were all issued on connection c inside one
\* transaction: BEGIN first, the statements of the repositories after a
\* BEGIN that succeeded and before COMMIT or ROLLBACK
InTransaction(l, c) ==
    /\ \A i \in DOMAIN l : l[i].conn = c /\ c # 0
    /\ l # <<>> => l[1].stmt = "BEGIN"
    /\ \A i \in DOMAIN l :
        IF l[i].stmt \in Control
        THEN l[i].stmt = "BEGIN" <=> i = 1
        ELSE /\ i > 1
             /\ l[1].ok
             /\ \A j \in 1..i : l[j].stmt \notin {"COMMIT", "ROLLBACK"}

\* the unit is inside a repository operation
InRepository(u) ==
    pc[u] \notin {"idle", "begin", "commit", "rollback", "finish"}

\* a step of a repository takes no connection from the pool, returns none,
\* and issues one statement that is not BEGIN, COMMIT or ROLLBACK
RepositoryStep ==
    \A u \in Units :
        (InRepository(u) /\ pc'[u] # pc[u]) =>
            /\ pool' = pool
            /\ conn' = conn
            /\ Len(log'[u]) = Len(log[u]) + 1
            /\ log'[u][Len(log'[u])].stmt \notin Control

\* the log of every unit under way, and of the call that ended
Transactional ==
    /\ \A u \in Units : Running(u) => InTransaction(log[u], conn[u])
    /\ (ended.kind # "none" /\ ended.log # <<>>) =>
          InTransaction(ended.log, ended.conn)

\* C27: every statement that a service issues through the repositories
\* goes to the one connection executeTransaction acquired, after its BEGIN
\* and before its COMMIT or ROLLBACK; no repository operation acquires a
\* connection or issues BEGIN, COMMIT or ROLLBACK
C27_OneConnection == []Transactional /\ [][RepositoryStep]_vars

\* two units of work are under way, each with statements of its repositories
\* on its own connection
C27_Witness ==
    /\ conn[1] # 0 /\ conn[2] # 0 /\ conn[1] # conn[2]
    /\ \A u \in Units :
          /\ Len(log[u]) >= 3
          /\ InTransaction(log[u], conn[u])
    /\ op[1].kind # op[2].kind

\* the COMMIT of the call failed
CommitFailed(c) == \E e \in Stmts(c) : e.stmt = "COMMIT" /\ ~e.ok

\* C28: a service call returns a result only if its COMMIT succeeded; when
\* COMMIT fails, executeTransaction attempts ROLLBACK, releases the
\* connection and raises the error of COMMIT: no caller sees success for a
\* transaction that did not commit
C28_ReturnOnlyAfterCommit ==
    /\ ended.kind = "returned" =>
        /\ Last(ended.log) = [stmt |-> "COMMIT", ok |-> TRUE,
                              conn |-> ended.conn]
        /\ ended.val # NoRow
        /\ ~Issued(ended, "ROLLBACK")
    /\ (ended.kind # "none" /\ CommitFailed(ended)) =>
        /\ ended.kind = "raised"
        /\ ended.val = NoRow
        /\ ended.err = DbError("COMMIT", "08006")
        /\ Last(ended.log).stmt = "ROLLBACK"
        /\ ended.log[Len(ended.log) - 1].stmt = "COMMIT"
        /\ ended.released = 1
        /\ ended.conn \notin pool
        /\ ended.alone => Db = ended.base

\* the COMMIT of an order failed after all its statements had succeeded
C28_Witness ==
    /\ ended.kind = "raised"
    /\ ended.op.kind = PCO
    /\ CommitFailed(ended)
    /\ Kinds(ended.log) = NewCustomerOrder
    /\ ended.loc.result # NoRow
    /\ pedidos = {}

\* a call that had a connection ended its transaction with COMMIT or
\* ROLLBACK and gave the connection back
Settled ==
    (ended.kind # "none" /\ ended.conn # 0) =>
        /\ Last(ended.log).stmt \in {"COMMIT", "ROLLBACK"}
        /\ ended.released = 1
        /\ ended.conn \notin pool
        /\ tx[ended.unit] = NoTx

\* C29: with every unit of work that can take a step taking one in the end,
\* every unit of work that is started, alone or next to others on the same
\* customer, product or order, ends in COMMIT or ROLLBACK and returns its
\* connection to the pool: no interleaving of orders and cancels waits for
\* ever
C29_Termination == []Settled /\ \A u \in Units : Running(u) ~> ~Running(u)

\* a cancel waits for the row of the product, which an order under way has
\* updated, while that order has not committed yet
C29_Witness ==
    \E u \in Units :
        /\ pc[u] = "restoreStock"
        /\ ProductLocked(u, loc[u].order.producto_id)
        /\ \E v \in Units \ {u} :
              op[v].kind \in OrderKinds /\ pc[v] = "commit"

\* the statements of the repositories that failed in the store
StoreFailures(c) ==
    {i \in DOMAIN c.log : c.log[i].stmt \notin Control /\ ~c.log[i].ok}

\* the messages the repositories put in front of a store error
Prefixes ==
    {"Error obteniendo cliente por email", "Error creando cliente",
     "Error obteniendo cliente", "Error obteniendo producto por nombre",
     "Error verificando stock", "Error actualizando stock",
     "Error restaurando stock", "Error creando pedido",
     "Error obteniendo pedido", "Error cancelando pedido"}

\* C30 as stated: a failure raised inside a repository operation reaches
\* the caller of the service as that same error, message and store error
\* code unchanged
C30_Original ==
    (ended.kind = "raised" /\ StoreFailures(ended) # {}) =>
        \A i \in StoreFailures(ended) :
            /\ ended.err.msg = <<"pg", ended.log[i].stmt>>
            /\ ended.err.code \in {"08006", "23505", "23514", "23503"}

\* C30: a statement of a repository that fails in the store reaches the
\* caller of the service as the error the repository threw in its place: a
\* new error whose message is the repository's prefix followed by the
\* message of the store, without the store's error code; the service and
\* executeTransaction pass that error on as it is
C30_ErrorPropagation ==
    (ended.kind # "none" /\ StoreFailures(ended) # {}) =>
        /\ ended.kind = "raised"
        /\ ended.err = ended.caught
        /\ ended.err.code = "none"
        /\ \A i \in StoreFailures(ended) :
            /\ i = Len(ended.log) - 1
            /\ Len(ended.err.msg) = 3
            /\ ended.err.msg[1] \in Prefixes
            /\ SubSeq(ended.err.msg, 2, 3) = <<"pg", ended.log[i].stmt>>

\* the UPDATE of updateStock failed in the store
C30_Witness ==
    /\ ended.kind = "raised"
    /\ ended.op.kind = PCO
    /\ StoreFailures(ended) # {}
    /\ ended.err = WrapError("Error actualizando stock",
                             DbError("UPDATE", "08006"))
    /\ ended.err.code = "none"

\* what updateStock throws when the stock does not cover the quantity
UpdateRefused ==
    WrapError("Error actualizando stock", Error("Stock insuficiente"))

\* where updateStock left the unit: refused without any UPDATE and with the
\* row untouched, or the row written with the new stock and returned as it
\* is after the update
UpdateStockResult ==
    \A u \in Units : op[u].kind \in OrderKinds =>
        /\ (pc[u] = "rollback" /\ err[u] = UpdateRefused) =>
            /\ Last(log[u]).stmt = "SELECT"
            /\ Count(log[u], "UPDATE") = 0
            /\ tx[u].upd = {}
            /\ loc[u].updatedProduct = NoRow
        /\ pc[u] = "commit" =>
            LET p == loc[u].foundProduct.id IN
            /\ p \in tx[u].upd
            /\ tx[u].stk[p] = loc[u].newStock
            /\ loc[u].newStock >= 0
            /\ loc[u].updatedProduct =
                  [inventario[p] EXCEPT !.stock = loc[u].newStock]
            /\ VisInventario(u)[p] = loc[u].updatedProduct
            /\ alone[u] => loc[u].newStock =
                  base[u].inventario[p].stock - op[u].cantidad

\* the SELECT of updateStock: the new stock is computed from the stock the
\* row holds at that moment, and the operation is refused exactly when that
\* would be negative
UpdateStockRead ==
    \A u \in Units :
        (pc[u] = "updateStockSelect" /\ pc'[u] # pc[u]
         /\ log'[u][Len(log'[u])].ok) =>
            LET current == VisInventario(u)[loc[u].foundProduct.id].stock IN
            IF current - op[u].cantidad < 0
            THEN pc'[u] = "rollback" /\ err'[u] = UpdateRefused
                 /\ tx'[u] = tx[u]
            ELSE pc'[u] = "updateStockUpdate"
                 /\ loc'[u].newStock = current - op[u].cantidad

\* C31: updateStock reads the current stock again; when stock - quantity is
\* negative it fails without any UPDATE and leaves the row as it is,
\* otherwise it sets the stock to exactly stock - quantity and returns the
\* row as it is after the update
C31_UpdateStock == []UpdateStockResult /\ [][UpdateStockRead]_vars

\* the stock was lowered by another order between the stock check of the
\* service and updateStock, whose own read finds it too low
C31_Witness ==
    \E u \in Units :
        /\ pc[u] = "rollback"
        /\ err[u] = UpdateRefused
        /\ loc[u].foundProduct.stock >= op[u].cantidad
        /\ inventario[loc[u].foundProduct.id].stock < op[u].cantidad
        /\ loc[u].createdOrder \in tx[u].ped

\* every order row refers to a customer row and to a product row
Referenced(orders, customers) ==
    \A r \in orders :
        /\ \E c \in customers : c.id = r.cliente_id
        /\ r.producto_id \in DOMAIN inventario

\* createOrder was called on its own with the id of no customer, or of no
\* product
Dangling(c) ==
    /\ c.kind # "none"
    /\ c.op.kind = "createOrder"
    /\ c.loc.foundProduct # NoRow
    /\ \/ ~ \E r \in c.base.clientes : r.id = c.op.cliente_id
       \/ c.loc.foundProduct.id \notin DOMAIN inventario

\* C32: in every committed state, and in what every transaction sees, each
\* order row refers to a customer row and a product row that exist;
\* createOrder with the id of no customer or of no product fails and
\* inserts nothing
C32_ReferentialIntegrity ==
    /\ Referenced(pedidos, clientes)
    /\ \A u \in Units : Referenced(VisPedidos(u), VisClientes(u))
    /\ Dangling(ended) =>
        /\ ended.kind = "raised"
        /\ ended.loc.createdOrder = NoRow
        /\ Db = ended.base
        /\ (\A e \in Stmts(ended) : e.stmt = "INSERT" => ~e.ok)
        /\ (faults = 0 /\ ended.op.cantidad > 0) =>
              ended.err \in {Error("Cliente no encontrado"),
                             Error("Producto no encontrado")}

\* a customer exists, and createOrder is called with the id of another one
C32_Witness ==
    /\ Dangling(ended)
    /\ clientes # {}
    /\ ended.op.cantidad > 0
    /\ ended.loc.foundProduct.id \in DOMAIN inventario
    /\ ended.err = Error("Cliente no encontrado")
    /\ faults = 0

\* the products the call of unit u names: by name for an order, through
\* the order it cancels for a cancellation
Named(u) ==
    IF op[u].kind = Cancel
    THEN {r.producto_id : r \in {o \in pedidos : o.id = op[u].orderId}}
    ELSE {p \in DOMAIN inventario : inventario[p].producto = op[u].producto}

\* a step keeps every product row, its name, price and minimum; a stock
\* changes only with the COMMIT of an order or a cancellation naming it
ProductFrame ==
    /\ DOMAIN inventario' = DOMAIN inventario
    /\ \A p \in DOMAIN inventario :
        /\ [inventario'[p] EXCEPT !.stock = 0] =
              [inventario[p] EXCEPT !.stock = 0]
        /\ inventario'[p].stock # inventario[p].stock =>
              \E u \in Units :
                /\ pc[u] = "commit"
                /\ pc'[u] # "commit"
                /\ op[u].kind \in OrderKinds \cup {Cancel}
                /\ p \in Named(u)

\* C33: no operation of the order service deletes a product or changes its
\* name or price; an order or a cancellation changes the stock of the one
\* product it names and of no other
C33_ProductFrame == [][ProductFrame]_vars

\* an order of the second product was cancelled after an order of the first
\* one: the first stock is down, the second one is back where it was
C33_Witness ==
    /\ ended.kind = "returned"
    /\ ended.op.kind = Cancel
    /\ ended.loc.order.producto_id = 2
    /\ inventario[1].stock < InitStock
    /\ inventario[2].stock = DefaultStockMinimo + 1
    /\ \E r \in pedidos : r.producto_id = 1

\* the order row r carries the price of the product row and their product
Priced(r, product) ==
    /\ r.producto_id = product.id
    /\ r.precio_unitario = product.precio
    /\ r.total = r.cantidad * r.precio_unitario

\* every order row, committed or not, is priced with its product's price;
\* the row a running order service inserted, with the price it has read
OrderPrices ==
    /\ \A r \in pedidos : Priced(r, inventario[r.producto_id])
    /\ \A u \in Units :
        /\ \A r \in tx[u].ped : Priced(r, inventario[r.producto_id])
        /\ (op[u].kind \in OrderKinds /\ loc[u].createdOrder # NoRow) =>
              /\ Priced(loc[u].createdOrder, loc[u].foundProduct)
              /\ loc[u].createdOrder.cantidad = op[u].cantidad

\* a step leaves every committed order row it does not delete as it is
OrderKept ==
    \A r \in pedidos : \A n \in pedidos' : n.id = r.id => n = r

\* C34: the unit price of an order row is the price of the product as the
\* unit of work read it, its total is quantity times unit price, and no
\* later operation changes the price or the total of an existing order
C34_OrderPrice == []OrderPrices /\ [][OrderKept]_vars

\* an order of two units of the second product is still there after a later
\* order was placed and cancelled
C34_Witness ==
    /\ ended.kind = "returned"
    /\ ended.op.kind = Cancel
    /\ \E r \in pedidos :
        /\ r.cantidad = 2
        /\ r.producto_id = 2
        /\ r.id < ended.op.orderId

POWEC == "processOrderWithExistingClient"

\* the statements that write, among those a call issued
Writes(c) == {e \in Stmts(c) : e.stmt \in {"INSERT", "UPDATE", "DELETE"}}

\* the ended call was given the id of no customer
UnknownCliente(c) ==
    /\ c.kind # "none"
    /\ c.op.kind = POWEC
    /\ c.op.cliente_id # 0
    /\ ~ \E r \in c.base.clientes : r.id = c.op.cliente_id
    /\ c.alone

\* C35: processOrderWithExistingClient never inserts or changes a customer
\* row; with the id of no customer it fails before any write; with
\* simulateError it always fails, after the validation, and leaves orders
\* and stock as they are
C35_ExistingClient ==
    /\ \A u \in Units : op[u].kind = POWEC => tx[u].cli = {}
    /\ (ended.kind # "none" /\ ended.op.kind = POWEC) =>
          clientes = ended.base.clientes
    /\ UnknownCliente(ended) =>
        /\ ended.kind = "raised"
        /\ ended.err = Error("Cliente no encontrado")
        /\ Writes(ended) = {}
        /\ Db = ended.base
    /\ (ended.kind # "none" /\ ended.op.kind = POWEC
                            /\ ended.op.simulateError) =>
        /\ ended.kind = "raised"
        /\ ended.err = SimulatedFailure
        /\ ended.loc.createdClient # NoRow
        /\ ended.loc.foundProduct # NoRow
        /\ Writes(ended) = {}
        /\ Db = ended.base

\* the service was called with the id of no customer while customers exist
C35_Witness ==
    /\ UnknownCliente(ended)
    /\ clientes # {}
    /\ faults = 0

\* the service was called for a customer and a product in stock, with
\* simulateError
C35_WitnessSimulated ==
    /\ ended.op.kind = POWEC
    /\ ended.op.simulateError
    /\ ended.op.cantidad > 0
    /\ pedidos # {}

Summary == "getOrderSummary"

\* the rows of a sequence
Range(q) == {q[i] : i \in DOMAIN q}

\* the rows of table inventario at or below their minimum stock
AtMinimum(products) ==
    {products[p] : p \in {i \in DOMAIN products :
                            products[i].stock <= products[i].stock_minimo}}

\* the summary returned shows the newest orders of those it read, at most
\* RecentLimit of them, and the products at or below their minimum
SummaryShown(c) ==
    LET shown == c.val.pedidos_recientes
        read == Range(c.loc.recentOrders) IN
    /\ Len(shown) <= RecentLimit
    /\ Len(shown) = Cardinality(Range(shown))
    /\ Range(shown) \subseteq read
    /\ Cardinality(read) <= RecentLimit => Range(shown) = read
    /\ Cardinality(read) > RecentLimit => Len(shown) = RecentLimit
    /\ \A r \in Range(shown) : \A o \in read \ Range(shown) : o.id < r.id
    /\ \A i, j \in DOMAIN shown : i < j => shown[i].id > shown[j].id
    /\ \A p \in c.val.productos_stock_bajo : p.stock <= p.stock_minimo
    /\ c.alone =>
        /\ read = pedidos
        /\ c.val.productos_stock_bajo = AtMinimum(inventario)
        /\ c.val.estadisticas.total_pedidos = Cardinality(pedidos)

\* C36: getOrderSummary writes nothing and leaves the tables as they are,
\* returns at most the ten most recent orders and exactly the products with
\* stock <= stock_minimo, and releases its connection
C36_Summary ==
    /\ \A u \in Units : op[u].kind = Summary => tx[u] = NoTx
    /\ (ended.kind # "none" /\ ended.op.kind = Summary) =>
        /\ Writes(ended) = {}
        /\ Db = ended.base
        /\ ended.conn # 0 => ended.released = 1 /\ ended.conn \notin pool
        /\ ended.kind = "returned" => SummaryShown(ended)

\* a summary of more than ten orders, while a product is exactly at its
\* minimum stock
C36_Witness ==
    /\ ended.kind = "returned"
    /\ ended.op.kind = Summary
    /\ ended.alone
    /\ Cardinality(pedidos) > RecentLimit
    /\ \E p \in ended.val.productos_stock_bajo : p.stock = p.stock_minimo

\* the ended call ran in a transaction of its own: BEGIN first, COMMIT or
\* ROLLBACK last, on a connection no other call holds
OwnTransaction(c) ==
    c.conn # 0 =>
        /\ c.log[1].stmt = "BEGIN"
        /\ Cardinality({i \in DOMAIN c.log : c.log[i].stmt = "BEGIN"}) = 1
        /\ Succeeded(c, "BEGIN") =>
              Last(c.log).stmt = IF c.kind = "returned" THEN "COMMIT"
                                 ELSE "ROLLBACK"
        /\ c.alone
        /\ c.kind = "raised" => Db = c.base

\* C37: executeSequentialTransactions runs its functions in order, each in
\* a transaction of its own; when one fails, what the earlier ones did stays
\* committed, none of the later ones is run, and the call raises
C37_Sequential ==
    batch.pc \in {"sequence", "raised", "done"} =>
        /\ \A j \in DOMAIN batch.attempted : batch.attempted[j] = j - 1
        /\ calls = Len(batch.attempted)
        /\ ended.kind # "none" => OwnTransaction(ended)
        /\ \A k \in DOMAIN batch.results : batch.results[k].pedido \in pedidos
        /\ batch.pc = "done" =>
            /\ batch.return = batch.results
            /\ Len(batch.results) = batch.length
            /\ Len(batch.attempted) = batch.length
            /\ Cardinality(pedidos) = batch.length
        /\ batch.pc = "raised" =>
            /\ batch.i < batch.length
            /\ Len(batch.results) = batch.i
            /\ Len(batch.attempted) = batch.i + 1
            /\ Cardinality(pedidos) = batch.i
            /\ batch.return = NoRow
            /\ Len(batch.errors) = 1
            /\ SubSeq(batch.errors[1].msg, 1, 2) =
                  <<"Transaccion fallo", batch.i + 1>>

\* the second of three functions fails for want of stock: the order of the
\* first one stays, the third one is not run
C37_Witness ==
    /\ batch.pc = "raised"
    /\ batch.length = 3
    /\ batch.i = 1
    /\ batch.errors[1] = SequenceError(1, Error("Stock insuficiente"))
    /\ Cardinality(pedidos) = 1
    /\ faults = 0

Clean == "cleanDatabase"

\* the ended cleanDatabase call ran on one connection, in one transaction,
\* and gave the connection back once
OneTransaction(c) ==
    c.conn # 0 =>
        /\ c.log[1].stmt = "BEGIN"
        /\ \A i \in DOMAIN c.log :
            /\ c.log[i].conn = c.conn
            /\ c.log[i].stmt = "BEGIN" => i = 1
            /\ (c.log[i].stmt = "COMMIT" /\ c.log[i].ok) => i = Len(c.log)
            /\ c.log[i].stmt = "ROLLBACK" => i = Len(c.log)
        /\ Last(c.log).stmt \in {"COMMIT", "ROLLBACK"}
        /\ c.released = 1
        /\ c.conn \notin pool

\* the ended cleanDatabase call did all of its mode, or nothing
AllOrNothing(c) ==
    /\ c.kind = "returned" =>
        /\ ~InvalidMode(c.op.mode)
        /\ [i \in 1..(Len(c.log) - 2) |-> c.log[i + 1].stmt] =
              [i \in DOMAIN Statements(c.op.mode) |->
                  Statements(c.op.mode)[i].verb]
        /\ \A e \in Stmts(c) : e.ok
        /\ Store = RunAll(c.base, Statements(c.op.mode))
    /\ c.kind = "raised" =>
        /\ Store = c.base
        /\ ~Succeeded(c, "COMMIT")
    /\ (InvalidMode(c.op.mode) \/ \E e \in Stmts(c) : ~e.ok) =>
          c.kind = "raised"

\* cleanDatabase is transactional and releases its connection, whatever
\* fails
CleanAtomic ==
    (ended.kind # "none" /\ ended.op.kind = Clean) =>
        /\ OneTransaction(ended)
        /\ AllOrNothing(ended)
        /\ ended.conn = 0 => pool = {}

\* C38 as stated: cleanDatabase runs the statements of its mode in one
\* transaction and releases its connection exactly once on every path; when
\* a statement fails or the mode is invalid nothing is committed, and the
\* error raised is the original failure even when ROLLBACK itself fails
C38_Original ==
    /\ CleanAtomic
    /\ (ended.kind = "raised" /\ ended.op.kind = Clean) =>
          ended.err = ended.caught

\* the error cleanDatabase raises is the error of ROLLBACK, logged or not
C38_RollbackErrorRaised ==
    /\ ended.kind = "raised"
    /\ ended.op.kind = Clean
    /\ InvalidMode(ended.op.mode)
    /\ ended.caught = Error("Invalid cleaning mode")
    /\ ended.err = DbError("ROLLBACK", "08006")

====
